---- MODULE Spec2Model ----
(***************************************************************************)
(* The EEPROM editor view model of OctoPrint-EEPROM-Marlin                 *)
(* (static/js/eeprom_marlin.js): the version-keyed line patterns, the line *)
(* extractor, the parameter store with its save diff, and the backup and   *)
(* restore cycles, as one state machine.                                   *)
(*                                                                         *)
(* Text is a sequence of tokens; a token stands for the characters         *)
(* TokText gives it.  A line is a text without a newline token.  Values    *)
(* are strings, so captured groups, the commands sent and the             *)
(* comparisons of saveEeprom are computed on the strings the code sees.    *)
(***************************************************************************)
EXTENDS Integers, Sequences, FiniteSets, TLC

\* Bounds of the model.
MaxLines == 3
MaxOps == 2

----------------------------------------------------------------------------
\* Tokens of the text the feed delivers and the backup accumulates.

NL == [t |-> "\n"]
COMMA == [t |-> ","]
RECV == [t |-> "Recv"]
SEND == [t |-> "Send"]
OK == [t |-> "ok"]
M501 == [t |-> "M501"]
\* The reply to M115: text is "FIRMWARE_NAME:" and what the firmware puts after it.
Fw(text) == [t |-> "fw", text |-> text]
Pair(tag, val) == [tag |-> tag, val |-> val]
Cmd(fam, pairs) == [t |-> "cmd", fam |-> fam, pairs |-> pairs]

\* The value JavaScript reads from a capture group the pattern does not have;
\* string concatenation renders it as these characters.
Undefined == "undefined"

RECURSIVE PairsText(_, _, _)
\* The characters of pairs[a..b], each as " <tag><value>".
PairsText(pairs, a, b) ==
  IF a > b THEN ""
  ELSE (" " \o pairs[a].tag \o pairs[a].val) \o PairsText(pairs, a + 1, b)

TokText(tok) ==
  CASE tok.t = "\n" -> "\n"
    [] tok.t = "," -> ","
    [] tok.t = "Recv" -> "Recv: "
    [] tok.t = "Send" -> "Send: "
    [] tok.t = "ok" -> "ok"
    [] tok.t = "M501" -> "M501"
    [] tok.t = "fw" -> tok.text
    [] tok.t = "cmd" -> tok.fam \o PairsText(tok.pairs, 1, Len(tok.pairs))

RECURSIVE Text(_)
Text(toks) == IF toks = <<>> THEN "" ELSE TokText(Head(toks)) \o Text(Tail(toks))

Digits == {"0", "1", "2", "3", "4", "5", "6", "7", "8", "9"}

RECURSIVE FromFirstDigit(_)
\* What is left of a string once a greedy [^0-9]* has consumed its head.
FromFirstDigit(str) ==
  IF str = "" THEN ""
  ELSE IF Head(str) \in Digits THEN str ELSE FromFirstDigit(Tail(str))

RECURSIVE LeadingBits(_)
\* The head of a string a greedy [0-1]* consumes.
LeadingBits(str) ==
  IF str = "" THEN ""
  ELSE IF Head(str) \in {"0", "1"} THEN Head(str) \o LeadingBits(Tail(str)) ELSE ""

RECURSIVE DropChars(_, _)
DropChars(str, n) == IF n = 0 \/ str = "" THEN str ELSE DropChars(Tail(str), n - 1)

RECURSIVE LeadingNumber(_)
\* The head of a string a greedy [0-9.]+ consumes.
LeadingNumber(str) ==
  IF str = "" THEN ""
  ELSE IF Head(str) \in Digits \cup {"."} THEN Head(str) \o LeadingNumber(Tail(str)) ELSE ""

----------------------------------------------------------------------------
\* Regular expressions.  A pattern names the command prefix it looks for and
\* the slot tags it captures; exec gives the capture groups 1, 2, ... of the
\* leftmost match, or NoMatch.

NoMatch == <<>>

Slots(fam, tags) == [kind |-> "slots", fam |-> fam, tags |-> tags]

RECURSIVE SlotPositions(_, _, _, _)
\* Where tags[k..] sit in pairs after position lo, each (.*) taking as much as
\* the rest of the pattern allows; <<>> when they do not all occur in order.
SlotPositions(tags, pairs, k, lo) ==
  LET cands == {j \in (lo + 1)..Len(pairs) :
                  /\ pairs[j].tag = tags[k]
                  /\ \/ k = Len(tags)
                     \/ SlotPositions(tags, pairs, k + 1, j) # <<>>}
  IN IF cands = {} THEN <<>>
     ELSE LET j == CHOOSE c \in cands : \A d \in cands : d <= c
          IN <<j>> \o (IF k = Len(tags) THEN <<>>
                       ELSE SlotPositions(tags, pairs, k + 1, j))

\* /FAM ([T1])(.*)[^0-9]([T2])(.*)...([Tn])(.*)/ on the command token tok
\* followed in its line by the characters rest.
SlotsMatch(p, tok, rest) ==
  IF tok.t # "cmd" \/ tok.fam # p.fam \/ tok.pairs = <<>> THEN NoMatch
  ELSE IF tok.pairs[1].tag # p.tags[1] THEN NoMatch
  ELSE LET n == Len(p.tags)
           pos == IF n = 1 THEN <<1>>
                  ELSE LET more == SlotPositions(p.tags, tok.pairs, 2, 1)
                       IN IF more = <<>> THEN <<>> ELSE <<1>> \o more
       IN IF pos = <<>> THEN NoMatch
          ELSE [i \in 1..(2 * n) |->
                 LET k == (i + 1) \div 2
                 IN IF i % 2 = 1 THEN p.tags[k]
                    ELSE IF k < n
                         THEN tok.pairs[pos[k]].val
                                \o PairsText(tok.pairs, pos[k] + 1, pos[k + 1] - 1)
                         ELSE tok.pairs[pos[k]].val
                                \o PairsText(tok.pairs, pos[k] + 1, Len(tok.pairs))
                                \o rest]

\* /M420 ([S])([0-1]*)[^0-9]*([Z]*)(.*)/: the greedy [^0-9]* also consumes
\* the Z, so group 3 is always empty and group 4 starts at the next digit.
M420Match(tok, rest) ==
  IF tok.t # "cmd" \/ tok.fam # "M420" \/ tok.pairs = <<>> THEN NoMatch
  ELSE IF tok.pairs[1].tag # "S" THEN NoMatch
  ELSE LET after == tok.pairs[1].val \o PairsText(tok.pairs, 2, Len(tok.pairs)) \o rest
           bits == LeadingBits(after)
       IN <<"S", bits, "", FromFirstDigit(DropChars(after, Len(bits)))>>

\* /M900 ([K])([0-9.]+)(.*)/
M900NumMatch(tok, rest) ==
  IF tok.t # "cmd" \/ tok.fam # "M900" \/ tok.pairs = <<>> THEN NoMatch
  ELSE IF tok.pairs[1].tag # "K" THEN NoMatch
  ELSE LET after == tok.pairs[1].val \o PairsText(tok.pairs, 2, Len(tok.pairs)) \o rest
           num == LeadingNumber(after)
       IN IF num = "" THEN NoMatch ELSE <<"K", num, DropChars(after, Len(num))>>

TokMatch(p, tok, rest) ==
  CASE p.kind = "slots" -> SlotsMatch(p, tok, rest)
    [] p.kind = "m420" -> M420Match(tok, rest)
    [] p.kind = "m900num" -> M900NumMatch(tok, rest)

RECURSIVE RegExExecFrom(_, _, _)
RegExExecFrom(p, line, i) ==
  IF i > Len(line) THEN NoMatch
  ELSE LET m == TokMatch(p, line[i], Text(SubSeq(line, i + 1, Len(line))))
       IN IF m # NoMatch THEN m ELSE RegExExecFrom(p, line, i + 1)

\* RegExp.prototype.exec on one line: the groups of the leftmost match.
RegExExec(p, line) == RegExExecFrom(p, line, 1)

\* A group read one position too far.
GroupOffByOne(m, i) == IF i + 1 <= Len(m) THEN m[i + 1] ELSE Undefined

\* match[i] of a successful exec.
Group(m, i) == IF i <= Len(m) THEN m[i] ELSE Undefined

\* match.length of a successful exec (group 0 included).
MatchLength(m) == Len(m) + 1

\* A pattern applied to a text that may hold newlines: "." stops at a
\* newline, so only whether it matches is used.
RegExTest(p, text) == \E i \in 1..Len(text) : TokMatch(p, text[i], "") # NoMatch

\* eepromM501RegEx = /M501/ and eepromOKRegEx = /ok/ (lines 18-19).
MatchesM501(text) == \E i \in 1..Len(text) : text[i].t = "M501"
MatchesOK(text) == \E i \in 1..Len(text) : text[i].t = "ok"

RECURSIVE LeadingNonSpace(_)
\* The head of a string a greedy [^\s]* consumes.
LeadingNonSpace(str) ==
  IF str = "" \/ Head(str) = " " THEN ""
  ELSE Head(str) \o LeadingNonSpace(Tail(str))

\* firmwareRegEx = /FIRMWARE_NAME:([^\s]*) ([^\s]*)/i (line 78) on a line:
\* <<match[0], match[1], match[2]>>, or NoMatch.  A line holds the prefix at
\* most once, at the head of its fw token.
FirmwareExec(line) ==
  IF \E i \in 1..Len(line) : line[i].t = "fw"
  THEN LET i == CHOOSE j \in 1..Len(line) :
                  line[j].t = "fw" /\ \A h \in 1..(j - 1) : line[h].t # "fw"
           after == DropChars(line[i].text, Len("FIRMWARE_NAME:"))
           g1 == LeadingNonSpace(after)
           rest == DropChars(after, Len(g1))
       IN IF rest = "" THEN NoMatch
          ELSE LET g2 == LeadingNonSpace(Tail(rest))
               IN <<"FIRMWARE_NAME:" \o g1 \o " " \o g2, g1, g2>>
  ELSE NoMatch

\* The spellings of "marlin" a case-insensitive search finds.
LowerChar(c) ==
  CASE c = "M" -> "m" [] c = "A" -> "a" [] c = "R" -> "r"
    [] c = "L" -> "l" [] c = "I" -> "i" [] c = "N" -> "n"
    [] OTHER -> c

RECURSIVE StartsWithMarlin(_, _)
StartsWithMarlin(str, pat) ==
  IF pat = "" THEN TRUE
  ELSE IF str = "" THEN FALSE
  ELSE LowerChar(Head(str)) = Head(pat) /\ StartsWithMarlin(Tail(str), Tail(pat))

RECURSIVE ContainsMarlin(_)
ContainsMarlin(str) ==
  IF str = "" THEN FALSE
  ELSE StartsWithMarlin(str, "marlin") \/ ContainsMarlin(Tail(str))

\* marlinRegEx = /Marlin[^\s]*/i (line 80) on match[0] of firmwareRegEx.
MarlinTest(m) == ContainsMarlin(m[1])
----------------------------------------------------------------------------
\* The patterns setRegExVars assigns (lines 15-71).

XYZE == <<"X", "Y", "Z", "E">>
PID == <<"P", "I", "D">>
HBF == <<"H", "B", "F">>

StableVersions ==
  {"latest", "Marlin 1.1.0-RC8", "Marlin 1.1.1", "Marlin 1.1.2", "Marlin 1.1.3",
   "Marlin 1.1.4", "Marlin 1.1.5", "Marlin 1.1.6", "Marlin 1.1.7", "Marlin 1.1.8"}
RCVersions ==
  {"Marlin 1.1.0-RC1", "Marlin 1.1.0-RC2", "Marlin 1.1.0-RC3", "Marlin 1.1.0-RC4",
   "Marlin 1.1.0-RC5", "Marlin 1.1.0-RC6", "Marlin 1.1.0-RC7"}
LegacyVersions == {"Marlin 1.0.2+", "Marlin V1.0.2;", "Marlin 1.0.2", "Marlin V1;"}

\* The assignments every version gets (lines 18-29).
AllVersions(rx) ==
  [rx EXCEPT
     !.M92 = Slots("M92", XYZE),
     !.M200 = Slots("M200", <<"D">>),
     !.M201 = Slots("M201", XYZE),
     !.M203 = Slots("M203", XYZE),
     !.M206 = Slots("M206", <<"X", "Y", "Z">>),
     !.M304 = Slots("M304", PID),
     !.M420 = [kind |-> "m420", fam |-> "M420", tags |-> <<"S", "Z">>],
     !.M851 = Slots("M851", <<"Z">>),
     !.M665 = Slots("M665", <<"L", "R", "H", "S", "B", "X", "Y", "Z">>),
     !.M666 = Slots("M666", <<"X", "Y", "Z">>)]

\* The record of pattern variables before setRegExVars has run.
NoPatterns ==
  [n \in {"M92", "M200", "M201", "M203", "M206", "M304", "M420", "M851", "M665",
          "M666", "M900", "M205", "M145S0", "M145S1", "M145S2", "M301", "M204"}
     |-> Slots("", <<"">>)]

\* setRegExVars(version): a branch assigns only the variables it names, the
\* others keep the pattern of the call before.
setRegExVars(rx, version) ==
  LET all == AllVersions(rx) IN
  IF version = "Marlin bugfix-2.0.x" THEN
    [all EXCEPT
       !.M900 = [kind |-> "m900num", fam |-> "M900", tags |-> <<"K">>],
       !.M205 = Slots("M205", <<"B", "S", "T", "X", "Y", "Z", "E">>),
       !.M145S0 = Slots("M145 S0", HBF),
       !.M145S1 = Slots("M145 S1", HBF),
       !.M145S2 = Slots("M145 S2", HBF),
       !.M301 = Slots("M301", PID),
       !.M204 = Slots("M204", <<"P", "R", "T">>)]
  ELSE IF version \in StableVersions THEN
    [all EXCEPT
       !.M205 = Slots("M205", <<"S", "T", "B", "X", "Y", "Z", "E">>),
       !.M145S0 = Slots("M145 S0", HBF),
       !.M145S1 = Slots("M145 S1", HBF),
       !.M145S2 = Slots("M145 S2", HBF),
       !.M301 = Slots("M301", PID),
       !.M204 = Slots("M204", <<"P", "R", "T">>),
       !.M900 = Slots("M900", <<"K", "R">>)]
  ELSE IF version \in RCVersions THEN
    [all EXCEPT
       !.M205 = Slots("M205", <<"S", "T", "B", "X", "Z", "E">>),
       !.M145S0 = Slots("M145 M0", HBF),
       !.M145S1 = Slots("M145 M1", HBF),
       !.M145S2 = Slots("M145 M2", HBF),
       !.M301 = Slots("M301", <<"P", "I", "D", "C", "L">>),
       !.M204 = Slots("M204", <<"P", "R", "T">>),
       !.M900 = Slots("M900", <<"K", "R">>)]
  ELSE IF version \in LegacyVersions THEN
    [all EXCEPT
       !.M204 = Slots("M204", <<"S", "T">>),
       !.M205 = Slots("M205", <<"S", "T", "B", "X", "Z", "E">>),
       !.M301 = Slots("M301", PID),
       !.M900 = Slots("M900", <<"K", "R">>)]
  ELSE
    [all EXCEPT
       !.M205 = Slots("M205", <<"S", "T", "B", "X", "Y", "Z", "E">>),
       !.M145S0 = Slots("M145 S0", HBF),
       !.M145S1 = Slots("M145 S1", HBF),
       !.M145S2 = Slots("M145 S2", HBF),
       !.M301 = Slots("M301", PID),
       !.M204 = Slots("M204", <<"P", "R", "T">>),
       !.M900 = Slots("M900", <<"K", "R">>)]

----------------------------------------------------------------------------
\* The fields eepromFieldParse pushes: per pattern variable, in the order of
\* the code, the section pushed to, the field's constants and the index of
\* the capture group it reads.  ifEmpty: the push is skipped unless the
\* section is empty; minLength: the push requires match.length >= minLength.

\* eepromFieldParse, lines 140-460
CommonFields ==
  <<
    [rx |-> "M92", ifEmpty |-> FALSE, fields |-> <<
        [sec |-> "Steps", dataType |-> "M92 X", label |-> "X axis", idx |-> 2, unit |-> "mm", description |-> "steps per unit", minLength |-> 0],
        [sec |-> "Steps", dataType |-> "M92 Y", label |-> "Y axis", idx |-> 4, unit |-> "mm", description |-> "steps per unit", minLength |-> 0],
        [sec |-> "Steps", dataType |-> "M92 Z", label |-> "Z axis", idx |-> 6, unit |-> "mm", description |-> "steps per unit", minLength |-> 0],
        [sec |-> "Steps", dataType |-> "M92 E", label |-> "Extruder", idx |-> 8, unit |-> "mm", description |-> "steps per unit", minLength |-> 0] >>],
    [rx |-> "M203", ifEmpty |-> FALSE, fields |-> <<
        [sec |-> "FRates", dataType |-> "M203 X", label |-> "X axis", idx |-> 2, unit |-> "mm", description |-> "rate per unit", minLength |-> 0],
        [sec |-> "FRates", dataType |-> "M203 Y", label |-> "Y axis", idx |-> 4, unit |-> "mm", description |-> "rate per unit", minLength |-> 0],
        [sec |-> "FRates", dataType |-> "M203 Z", label |-> "Z axis", idx |-> 6, unit |-> "mm", description |-> "rate per unit", minLength |-> 0],
        [sec |-> "FRates", dataType |-> "M203 E", label |-> "Extruder", idx |-> 8, unit |-> "mm", description |-> "rate per unit", minLength |-> 0] >>],
    [rx |-> "M201", ifEmpty |-> FALSE, fields |-> <<
        [sec |-> "MaxAccel", dataType |-> "M201 X", label |-> "X axis", idx |-> 2, unit |-> "mm/s2", description |-> "", minLength |-> 0],
        [sec |-> "MaxAccel", dataType |-> "M201 Y", label |-> "Y axis", idx |-> 4, unit |-> "mm/s2", description |-> "", minLength |-> 0],
        [sec |-> "MaxAccel", dataType |-> "M201 Z", label |-> "Z axis", idx |-> 6, unit |-> "mm/s2", description |-> "", minLength |-> 0],
        [sec |-> "MaxAccel", dataType |-> "M201 E", label |-> "Extruder", idx |-> 8, unit |-> "mm/s2", description |-> "", minLength |-> 0] >>],
    [rx |-> "M851", ifEmpty |-> FALSE, fields |-> <<
        [sec |-> "Data1", dataType |-> "M851 Z", label |-> "Z-Probe Offset", idx |-> 2, unit |-> "mm", description |-> "", minLength |-> 0] >>],
    [rx |-> "M206", ifEmpty |-> FALSE, fields |-> <<
        [sec |-> "Homing", dataType |-> "M206 X", label |-> "X axis", idx |-> 2, unit |-> "mm", description |-> "", minLength |-> 0],
        [sec |-> "Homing", dataType |-> "M206 Y", label |-> "Y axis", idx |-> 4, unit |-> "mm", description |-> "", minLength |-> 0],
        [sec |-> "Homing", dataType |-> "M206 Z", label |-> "Z axis", idx |-> 6, unit |-> "mm", description |-> "", minLength |-> 0] >>],
    [rx |-> "M666", ifEmpty |-> FALSE, fields |-> <<
        [sec |-> "Endstop", dataType |-> "M666 X", label |-> "X axis", idx |-> 2, unit |-> "mm", description |-> "", minLength |-> 0],
        [sec |-> "Endstop", dataType |-> "M666 Y", label |-> "Y axis", idx |-> 4, unit |-> "mm", description |-> "", minLength |-> 0],
        [sec |-> "Endstop", dataType |-> "M666 Z", label |-> "Z axis", idx |-> 6, unit |-> "mm", description |-> "", minLength |-> 0] >>],
    [rx |-> "M665", ifEmpty |-> FALSE, fields |-> <<
        [sec |-> "Delta1", dataType |-> "M665 L", label |-> "Diag Rod", idx |-> 2, unit |-> "mm", description |-> "", minLength |-> 0],
        [sec |-> "Delta1", dataType |-> "M665 R", label |-> "Radius", idx |-> 4, unit |-> "mm", description |-> "", minLength |-> 0],
        [sec |-> "Delta1", dataType |-> "M665 S", label |-> "Segments", idx |-> 6, unit |-> "s", description |-> "", minLength |-> 0],
        [sec |-> "Delta2", dataType |-> "M665 A", label |-> "Diag A", idx |-> 8, unit |-> "mm", description |-> "", minLength |-> 0],
        [sec |-> "Delta2", dataType |-> "M665 B", label |-> "Diag B", idx |-> 10, unit |-> "mm", description |-> "", minLength |-> 0],
        [sec |-> "Delta2", dataType |-> "M665 C", label |-> "Diag C", idx |-> 12, unit |-> "mm", description |-> "", minLength |-> 0] >>],
    [rx |-> "M900", ifEmpty |-> FALSE, fields |-> <<
        [sec |-> "Linear", dataType |-> "M900 K", label |-> "Linear Advance K", idx |-> 2, unit |-> "mm", description |-> "", minLength |-> 0],
        [sec |-> "Linear", dataType |-> "M900 R", label |-> "Linear Ratio", idx |-> 4, unit |-> "mm", description |-> "", minLength |-> 0] >>],
    [rx |-> "M200", ifEmpty |-> TRUE, fields |-> <<
        [sec |-> "Filament", dataType |-> "M200 D", label |-> "Diameter", idx |-> 2, unit |-> "mm", description |-> "", minLength |-> 0] >>],
    [rx |-> "M304", ifEmpty |-> FALSE, fields |-> <<
        [sec |-> "PIDB", dataType |-> "M304 P", label |-> "Bed Kp", idx |-> 2, unit |-> "term", description |-> "", minLength |-> 0],
        [sec |-> "PIDB", dataType |-> "M304 I", label |-> "Ki", idx |-> 4, unit |-> "term", description |-> "", minLength |-> 0],
        [sec |-> "PIDB", dataType |-> "M304 D", label |-> "Kd", idx |-> 6, unit |-> "term", description |-> "", minLength |-> 0] >>]
  >>

\* eepromFieldParse, lines 461-699
StableFields ==
  <<
    [rx |-> "M205", ifEmpty |-> FALSE, fields |-> <<
        [sec |-> "Data1", dataType |-> "M205 S", label |-> "Min feedrate", idx |-> 2, unit |-> "mm/s", description |-> "", minLength |-> 0],
        [sec |-> "Data1", dataType |-> "M205 T", label |-> "Min travel", idx |-> 4, unit |-> "mm/s", description |-> "", minLength |-> 0],
        [sec |-> "Data1", dataType |-> "M205 B", label |-> "Min segment", idx |-> 6, unit |-> "mm/s", description |-> "", minLength |-> 0],
        [sec |-> "Data2", dataType |-> "M205 X", label |-> "Max X jerk", idx |-> 8, unit |-> "mm/s", description |-> "", minLength |-> 0],
        [sec |-> "Data2", dataType |-> "M205 Y", label |-> "Max Y jerk", idx |-> 10, unit |-> "mm/s", description |-> "", minLength |-> 0],
        [sec |-> "Data2", dataType |-> "M205 Z", label |-> "Max Z jerk", idx |-> 12, unit |-> "mm/s", description |-> "", minLength |-> 0],
        [sec |-> "Data2", dataType |-> "M205 E", label |-> "Max E jerk", idx |-> 14, unit |-> "mm/s", description |-> "", minLength |-> 0] >>],
    [rx |-> "M204", ifEmpty |-> FALSE, fields |-> <<
        [sec |-> "Accel", dataType |-> "M204 P", label |-> "Printing moves", idx |-> 2, unit |-> "mm/s2", description |-> "", minLength |-> 0],
        [sec |-> "Accel", dataType |-> "M204 R", label |-> "Retract", idx |-> 4, unit |-> "mm/s2", description |-> "", minLength |-> 0],
        [sec |-> "Accel", dataType |-> "M204 T", label |-> "Travel", idx |-> 6, unit |-> "mm/s2", description |-> "", minLength |-> 0] >>],
    [rx |-> "M301", ifEmpty |-> FALSE, fields |-> <<
        [sec |-> "PID", dataType |-> "M301 P", label |-> "Hotend Kp", idx |-> 2, unit |-> "term", description |-> "", minLength |-> 0],
        [sec |-> "PID", dataType |-> "M301 I", label |-> "Ki", idx |-> 4, unit |-> "term", description |-> "", minLength |-> 0],
        [sec |-> "PID", dataType |-> "M301 D", label |-> "Kd", idx |-> 6, unit |-> "term", description |-> "", minLength |-> 0] >>],
    [rx |-> "M145S0", ifEmpty |-> FALSE, fields |-> <<
        [sec |-> "MaterialHS0", dataType |-> "M145 S0 H", label |-> "S0 Hotend Temperature", idx |-> 2, unit |-> "", description |-> "", minLength |-> 0],
        [sec |-> "MaterialHS0", dataType |-> "M145 S0 B", label |-> "Bed Temperature", idx |-> 4, unit |-> "", description |-> "", minLength |-> 0],
        [sec |-> "MaterialHS0", dataType |-> "M145 S0 F", label |-> "Fan Speed", idx |-> 6, unit |-> "", description |-> "", minLength |-> 0] >>],
    [rx |-> "M145S1", ifEmpty |-> FALSE, fields |-> <<
        [sec |-> "MaterialHS1", dataType |-> "M145 S1 H", label |-> "S1 Hotend Temperature", idx |-> 2, unit |-> "", description |-> "", minLength |-> 0],
        [sec |-> "MaterialHS1", dataType |-> "M145 S1 B", label |-> "Bed Temperature", idx |-> 4, unit |-> "", description |-> "", minLength |-> 0],
        [sec |-> "MaterialHS1", dataType |-> "M145 S1 F", label |-> "Fan Speed", idx |-> 6, unit |-> "", description |-> "", minLength |-> 0] >>],
    [rx |-> "M145S2", ifEmpty |-> FALSE, fields |-> <<
        [sec |-> "MaterialHS2", dataType |-> "M145 S2 H", label |-> "S2 Hotend Temperature", idx |-> 2, unit |-> "", description |-> "", minLength |-> 0],
        [sec |-> "MaterialHS2", dataType |-> "M145 S2 B", label |-> "Bed Temperature", idx |-> 4, unit |-> "", description |-> "", minLength |-> 0],
        [sec |-> "MaterialHS2", dataType |-> "M145 S2 F", label |-> "Fan Speed", idx |-> 6, unit |-> "", description |-> "", minLength |-> 0] >>],
    [rx |-> "M420", ifEmpty |-> FALSE, fields |-> <<
        [sec |-> "Level", dataType |-> "M420 S", label |-> "Auto Bed Leveling", idx |-> 2, unit |-> "0/1", description |-> "", minLength |-> 0],
        [sec |-> "Level", dataType |-> "M420 Z", label |-> "Fade height", idx |-> 4, unit |-> "mm", description |-> "", minLength |-> 3] >>]
  >>

\* eepromFieldParse, lines 700-931
RCFields ==
  <<
    [rx |-> "M205", ifEmpty |-> FALSE, fields |-> <<
        [sec |-> "Data1", dataType |-> "M205 S", label |-> "Min feedrate", idx |-> 2, unit |-> "mm/s", description |-> "", minLength |-> 0],
        [sec |-> "Data1", dataType |-> "M205 T", label |-> "Min travel", idx |-> 4, unit |-> "mm/s", description |-> "", minLength |-> 0],
        [sec |-> "Data1", dataType |-> "M205 B", label |-> "Min segment", idx |-> 6, unit |-> "mm/s", description |-> "", minLength |-> 0],
        [sec |-> "Data2", dataType |-> "M205 X", label |-> "Max X jerk", idx |-> 8, unit |-> "mm/s", description |-> "", minLength |-> 0],
        [sec |-> "Data2", dataType |-> "M205 Y", label |-> "Max Y jerk", idx |-> 10, unit |-> "mm/s", description |-> "", minLength |-> 0],
        [sec |-> "Data2", dataType |-> "M205 Z", label |-> "Max Z jerk", idx |-> 12, unit |-> "mm/s", description |-> "", minLength |-> 0],
        [sec |-> "Data2", dataType |-> "M205 E", label |-> "Max E jerk", idx |-> 14, unit |-> "mm/s", description |-> "", minLength |-> 0] >>],
    [rx |-> "M204", ifEmpty |-> FALSE, fields |-> <<
        [sec |-> "Accel", dataType |-> "M204 P", label |-> "Printing moves", idx |-> 2, unit |-> "mm/s2", description |-> "", minLength |-> 0],
        [sec |-> "Accel", dataType |-> "M204 R", label |-> "Retract", idx |-> 4, unit |-> "mm/s2", description |-> "", minLength |-> 0],
        [sec |-> "Accel", dataType |-> "M204 T", label |-> "Travel", idx |-> 6, unit |-> "mm/s2", description |-> "", minLength |-> 0] >>],
    [rx |-> "M301", ifEmpty |-> FALSE, fields |-> <<
        [sec |-> "PID", dataType |-> "M301 P", label |-> "Hotend Kp", idx |-> 2, unit |-> "term", description |-> "", minLength |-> 0],
        [sec |-> "PID", dataType |-> "M301 I", label |-> "Ki", idx |-> 4, unit |-> "term", description |-> "", minLength |-> 0],
        [sec |-> "PID", dataType |-> "M301 D", label |-> "Kd", idx |-> 6, unit |-> "term", description |-> "", minLength |-> 0],
        [sec |-> "PID", dataType |-> "M301 C", label |-> "Kc", idx |-> 8, unit |-> "term", description |-> "", minLength |-> 0],
        [sec |-> "PID", dataType |-> "M301 L", label |-> "LPQ", idx |-> 10, unit |-> "len", description |-> "", minLength |-> 0] >>],
    [rx |-> "M145S0", ifEmpty |-> FALSE, fields |-> <<
        [sec |-> "MaterialHS0", dataType |-> "M145 M0 H", label |-> "M0 Hotend Temperature", idx |-> 2, unit |-> "", description |-> "", minLength |-> 0],
        [sec |-> "MaterialHS0", dataType |-> "M145 M0 B", label |-> "Bed Temperature", idx |-> 4, unit |-> "", description |-> "", minLength |-> 0],
        [sec |-> "MaterialHS0", dataType |-> "M145 M0 F", label |-> "Fan Speed", idx |-> 6, unit |-> "", description |-> "", minLength |-> 0] >>],
    [rx |-> "M145S1", ifEmpty |-> FALSE, fields |-> <<
        [sec |-> "MaterialHS1", dataType |-> "M145 M1 H", label |-> "M1 Hotend Temperature", idx |-> 2, unit |-> "", description |-> "", minLength |-> 0],
        [sec |-> "MaterialHS1", dataType |-> "M145 M1 B", label |-> "Bed Temperature", idx |-> 4, unit |-> "", description |-> "", minLength |-> 0],
        [sec |-> "MaterialHS1", dataType |-> "M145 M1 F", label |-> "Fan Speed", idx |-> 6, unit |-> "", description |-> "", minLength |-> 0] >>],
    [rx |-> "M145S2", ifEmpty |-> FALSE, fields |-> <<
        [sec |-> "MaterialHS2", dataType |-> "M145 M2 H", label |-> "M2 Hotend Temperature", idx |-> 2, unit |-> "", description |-> "", minLength |-> 0],
        [sec |-> "MaterialHS2", dataType |-> "M145 M2 B", label |-> "Bed Temperature", idx |-> 4, unit |-> "", description |-> "", minLength |-> 0],
        [sec |-> "MaterialHS2", dataType |-> "M145 M2 F", label |-> "Fan Speed", idx |-> 6, unit |-> "", description |-> "", minLength |-> 0] >>]
  >>

\* eepromFieldParse, lines 932-1042
LegacyFields ==
  <<
    [rx |-> "M205", ifEmpty |-> FALSE, fields |-> <<
        [sec |-> "Data1", dataType |-> "M205 S", label |-> "Min feedrate", idx |-> 2, unit |-> "mm/s", description |-> "", minLength |-> 0],
        [sec |-> "Data1", dataType |-> "M205 T", label |-> "Min travel", idx |-> 4, unit |-> "mm/s", description |-> "", minLength |-> 0],
        [sec |-> "Data1", dataType |-> "M205 B", label |-> "Min segment", idx |-> 6, unit |-> "mm/s", description |-> "", minLength |-> 0],
        [sec |-> "Data2", dataType |-> "M205 X", label |-> "Max X jerk", idx |-> 8, unit |-> "mm/s", description |-> "", minLength |-> 0],
        [sec |-> "Data2", dataType |-> "M205 Z", label |-> "Max Z jerk", idx |-> 10, unit |-> "mm/s", description |-> "", minLength |-> 0],
        [sec |-> "Data2", dataType |-> "M205 E", label |-> "Max E jerk", idx |-> 12, unit |-> "mm/s", description |-> "", minLength |-> 0] >>],
    [rx |-> "M204", ifEmpty |-> FALSE, fields |-> <<
        [sec |-> "Accel", dataType |-> "M204 S", label |-> "Printing moves", idx |-> 2, unit |-> "mm/s2", description |-> "", minLength |-> 0],
        [sec |-> "Accel", dataType |-> "M204 T", label |-> "Travel", idx |-> 4, unit |-> "mm/s2", description |-> "", minLength |-> 0] >>],
    [rx |-> "M301", ifEmpty |-> FALSE, fields |-> <<
        [sec |-> "PID", dataType |-> "M301 P", label |-> "Hotend Kp", idx |-> 2, unit |-> "term", description |-> "", minLength |-> 0],
        [sec |-> "PID", dataType |-> "M301 I", label |-> "Ki", idx |-> 4, unit |-> "term", description |-> "", minLength |-> 0],
        [sec |-> "PID", dataType |-> "M301 D", label |-> "Kd", idx |-> 6, unit |-> "term", description |-> "", minLength |-> 0] >>]
  >>

\* eepromFieldParse, lines 1043-1281
\* A fallback branch with the pushes of the legacy branch.
DefaultFieldsAsLegacy == LegacyFields

DefaultFields ==
  <<
    [rx |-> "M205", ifEmpty |-> FALSE, fields |-> <<
        [sec |-> "Data1", dataType |-> "M205 S", label |-> "Min feedrate", idx |-> 2, unit |-> "mm/s", description |-> "", minLength |-> 0],
        [sec |-> "Data1", dataType |-> "M205 T", label |-> "Min travel", idx |-> 4, unit |-> "mm/s", description |-> "", minLength |-> 0],
        [sec |-> "Data1", dataType |-> "M205 B", label |-> "Min segment", idx |-> 6, unit |-> "mm/s", description |-> "", minLength |-> 0],
        [sec |-> "Data2", dataType |-> "M205 X", label |-> "Max X jerk", idx |-> 8, unit |-> "mm/s", description |-> "", minLength |-> 0],
        [sec |-> "Data2", dataType |-> "M205 Y", label |-> "Max Y jerk", idx |-> 10, unit |-> "mm/s", description |-> "", minLength |-> 0],
        [sec |-> "Data2", dataType |-> "M205 Z", label |-> "Max Z jerk", idx |-> 12, unit |-> "mm/s", description |-> "", minLength |-> 0],
        [sec |-> "Data2", dataType |-> "M205 E", label |-> "Max E jerk", idx |-> 14, unit |-> "mm/s", description |-> "", minLength |-> 0] >>],
    [rx |-> "M204", ifEmpty |-> FALSE, fields |-> <<
        [sec |-> "Accel", dataType |-> "M204 P", label |-> "Printing moves", idx |-> 2, unit |-> "mm/s2", description |-> "", minLength |-> 0],
        [sec |-> "Accel", dataType |-> "M204 R", label |-> "Retract", idx |-> 4, unit |-> "mm/s2", description |-> "", minLength |-> 0],
        [sec |-> "Accel", dataType |-> "M204 T", label |-> "Travel", idx |-> 6, unit |-> "mm/s2", description |-> "", minLength |-> 0] >>],
    [rx |-> "M301", ifEmpty |-> FALSE, fields |-> <<
        [sec |-> "PID", dataType |-> "M301 P", label |-> "Hotend Kp", idx |-> 2, unit |-> "term", description |-> "", minLength |-> 0],
        [sec |-> "PID", dataType |-> "M301 I", label |-> "Ki", idx |-> 4, unit |-> "term", description |-> "", minLength |-> 0],
        [sec |-> "PID", dataType |-> "M301 D", label |-> "Kd", idx |-> 6, unit |-> "term", description |-> "", minLength |-> 0] >>],
    [rx |-> "M145S0", ifEmpty |-> FALSE, fields |-> <<
        [sec |-> "MaterialHS0", dataType |-> "M145 S0 H", label |-> "S0 Hotend Temperature", idx |-> 2, unit |-> "", description |-> "", minLength |-> 0],
        [sec |-> "MaterialHS0", dataType |-> "M145 S0 B", label |-> "Bed Temperature", idx |-> 4, unit |-> "", description |-> "", minLength |-> 0],
        [sec |-> "MaterialHS0", dataType |-> "M145 S0 F", label |-> "Fan Speed", idx |-> 6, unit |-> "", description |-> "", minLength |-> 0] >>],
    [rx |-> "M145S1", ifEmpty |-> FALSE, fields |-> <<
        [sec |-> "MaterialHS1", dataType |-> "M145 S1 H", label |-> "S1 Hotend Temperature", idx |-> 2, unit |-> "", description |-> "", minLength |-> 0],
        [sec |-> "MaterialHS1", dataType |-> "M145 S1 B", label |-> "Bed Temperature", idx |-> 4, unit |-> "", description |-> "", minLength |-> 0],
        [sec |-> "MaterialHS1", dataType |-> "M145 S1 F", label |-> "Fan Speed", idx |-> 6, unit |-> "", description |-> "", minLength |-> 0] >>],
    [rx |-> "M145S2", ifEmpty |-> FALSE, fields |-> <<
        [sec |-> "MaterialHS2", dataType |-> "M145 S2 H", label |-> "S2 Hotend Temperature", idx |-> 2, unit |-> "", description |-> "", minLength |-> 0],
        [sec |-> "MaterialHS2", dataType |-> "M145 S2 B", label |-> "Bed Temperature", idx |-> 4, unit |-> "", description |-> "", minLength |-> 0],
        [sec |-> "MaterialHS2", dataType |-> "M145 S2 F", label |-> "Fan Speed", idx |-> 6, unit |-> "", description |-> "", minLength |-> 0] >>],
    [rx |-> "M420", ifEmpty |-> FALSE, fields |-> <<
        [sec |-> "Level", dataType |-> "M420 S", label |-> "Auto Bed Leveling", idx |-> 2, unit |-> "0/1", description |-> "", minLength |-> 0],
        [sec |-> "Level", dataType |-> "M420 Z", label |-> "Fade height", idx |-> 4, unit |-> "mm", description |-> "", minLength |-> 3] >>]
  >>
----------------------------------------------------------------------------
\* The parameter store: the 18 observable arrays (lines 99-116).

Sections ==
  {"Data1", "Data2", "Level", "Steps", "FRates", "MaxAccel", "Accel", "PID", "PIDB",
   "Homing", "MaterialHS0", "MaterialHS1", "MaterialHS2", "Filament", "Endstop",
   "Delta1", "Delta2", "Linear"}

EmptyStore == [sec \in Sections |-> <<>>]

\* A branch selection that sends the legacy names to the stable branch.
BranchFieldsLegacyAsStable(name) ==
  IF name \in RCVersions THEN RCFields ELSE StableFields

\* The branch of eepromFieldParse taken for a firmware name (lines 461, 700,
\* 932, 1043), after the patterns tried for every name.
BranchFields(name) ==
  IF name \in {"Marlin 1.1.0-RC8", "Marlin 1.1.1", "Marlin 1.1.2", "Marlin 1.1.3",
               "Marlin 1.1.4", "Marlin 1.1.5", "Marlin 1.1.6", "Marlin 1.1.7",
               "Marlin 1.1.8", "Marlin bugfix-2.0.x", "Marlin bugfix-2.0.x (Github)"}
  THEN StableFields
  ELSE IF name \in RCVersions THEN RCFields
  ELSE IF name \in LegacyVersions THEN LegacyFields
  ELSE DefaultFields

\* A push that takes origValue from the match whatever restoreBackup is.
NewFieldOrigFromMatch(f, m, restoreBackup) ==
  [dataType |-> f.dataType,
   label |-> f.label,
   origValue |-> Group(m, f.idx),
   value |-> Group(m, f.idx),
   unit |-> f.unit,
   description |-> f.description]

\* One push of a field object.
NewField(f, m, restoreBackup) ==
  [dataType |-> f.dataType,
   label |-> f.label,
   origValue |-> IF restoreBackup THEN "" ELSE Group(m, f.idx),
   value |-> Group(m, f.idx),
   unit |-> f.unit,
   description |-> f.description]

RECURSIVE PushFields(_, _, _, _, _)
PushFields(store, fields, k, m, restoreBackup) ==
  IF k > Len(fields) THEN store
  ELSE LET f == fields[k]
           next == IF MatchLength(m) >= f.minLength
                   THEN [store EXCEPT ![f.sec] = Append(@, NewField(f, m, restoreBackup))]
                   ELSE store
       IN PushFields(next, fields, k + 1, m, restoreBackup)

RECURSIVE ParseEntries(_, _, _, _, _, _)
\* match = self.eeprom<X>RegEx.exec(line); if (match) { pushes }, entry by entry.
ParseEntries(store, rx, entries, k, line, restoreBackup) ==
  IF k > Len(entries) THEN store
  ELSE LET e == entries[k]
           m == RegExExec(rx[e.rx], line)
           next == IF m # NoMatch /\ (e.ifEmpty => store[e.fields[1].sec] = <<>>)
                   THEN PushFields(store, e.fields, 1, m, restoreBackup)
                   ELSE store
       IN ParseEntries(next, rx, entries, k + 1, line, restoreBackup)

----------------------------------------------------------------------------
\* The view model.  An operation maps the record of the object's fields to
\* the record after it; an action commits the record an operation returns.
\*   timers     the setTimeout callbacks scheduled and not yet run
\*   sent       the commands the running handler has passed to sendCustomCommand
\*   downloads  the texts emitted as a download, oldest first

\* A setControls that loses the assignment of the flag.
setControlsKeepsFlag(s, state) == s

\* setControls(state) (lines 1545-1555).
setControls(s, state) ==
  IF s.stateControls # state THEN [s EXCEPT !.stateControls = state] ELSE s

\* A setTimeout whose callback is never registered.
scheduleEnableDropped(s) == s

\* setTimeout(function() {self.setControls(true); }, 2000) (lines 137, 1370).
scheduleEnable(s) == [s EXCEPT !.timers = @ + 1]

sendCustomCommand(s, command) == [s EXCEPT !.sent = Append(@, command)]

\* _requestFirmwareInfo (lines 1751-1755).
_requestFirmwareInfo(s) ==
  IF ~s.printing THEN sendCustomCommand(s, "M115") ELSE s

\* A dump request that asks for the settings in memory (M503) instead.
_requestEepromDataFromMemory(s) ==
  IF ~s.printing
  THEN sendCustomCommand(sendCustomCommand(s, "M504"), "M503")
  ELSE s

\* A dump request that does not test isPrinting.
_requestEepromDataWhilePrinting(s) ==
  sendCustomCommand(sendCustomCommand(s, "M504"), "M501")

\* _requestEepromData (lines 1757-1762).
_requestEepromData(s) ==
  IF ~s.printing
  THEN sendCustomCommand(sendCustomCommand(s, "M504"), "M501")
  ELSE s

\* _requestSaveDataToEeprom (lines 1764-1767).
_requestSaveDataToEeprom(s, data_type, value) ==
  sendCustomCommand(s, data_type \o value)

\* A reset that forgets the last of the 18 arrays.
resetStoreKeepsLinear(s) ==
  [s EXCEPT !.store = [sec \in Sections |-> IF sec = "Linear" THEN @[sec] ELSE <<>>]]

\* The 18 assignments of an empty array (lines 1446-1463, 1515-1532, 1561-1578).
resetStore(s) == [s EXCEPT !.store = EmptyStore]

\* loadEeprom (lines 1557-1584).
loadEeprom(s) == _requestEepromData(resetStore(setControls(s, FALSE)))

\* An observable that notifies its subscriber on every write.
isMarlinFirmwareAlwaysNotifies(s, value) ==
  loadEeprom([s EXCEPT !.isMarlinFirmware = value])

\* isMarlinFirmware(value): the subscriber (lines 86-88) runs when the
\* observable's value changes.
isMarlinFirmware(s, value) ==
  IF s.isMarlinFirmware # value
  THEN loadEeprom([s EXCEPT !.isMarlinFirmware = value])
  ELSE s

\* An eepromFieldParse whose M200 push does not test the section's length.
eepromFieldParseFilamentAgain(s, line, restoreBackup) ==
  LET s1 == IF MatchesOK(line) THEN scheduleEnable(s) ELSE s
      entries == CommonFields \o BranchFields(s.FIRMWARE_NAME)
      parsed == ParseEntries([s1.store EXCEPT !["Filament"] = <<>>], s1.rx, entries, 1,
                             line, restoreBackup)
  IN [s1 EXCEPT !.store = [parsed EXCEPT !["Filament"] = s1.store["Filament"] \o @]]

\* An eepromFieldParse that replaces a section's fields by those of the line.
eepromFieldParseReplaces(s, line, restoreBackup) ==
  LET s1 == IF MatchesOK(line) THEN scheduleEnable(s) ELSE s
      entries == CommonFields \o BranchFields(s.FIRMWARE_NAME)
      parsed == ParseEntries([sec \in Sections |->
                                IF sec = "Filament" THEN s1.store[sec] ELSE <<>>],
                             s1.rx, entries, 1, line, restoreBackup)
  IN [s1 EXCEPT !.store = [sec \in Sections |->
                             IF parsed[sec] # <<>> THEN parsed[sec] ELSE s1.store[sec]]]

\* An eepromFieldParse that puts a line's fields in front of those a section
\* holds (unshift for push).
eepromFieldParseUnshifts(s, line, restoreBackup) ==
  LET s1 == IF MatchesOK(line) THEN scheduleEnable(s) ELSE s
      entries == CommonFields \o BranchFields(s.FIRMWARE_NAME)
      parsed == ParseEntries([sec \in Sections |->
                                IF sec = "Filament" THEN s1.store[sec] ELSE <<>>],
                             s1.rx, entries, 1, line, restoreBackup)
  IN [s1 EXCEPT !.store = [sec \in Sections |->
                             IF sec = "Filament" THEN parsed[sec]
                             ELSE parsed[sec] \o s1.store[sec]]]

\* eepromFieldParse(line, restoreBackup) (lines 134-1282).
eepromFieldParse(s, line, restoreBackup) ==
  LET s1 == IF MatchesOK(line) THEN scheduleEnable(s) ELSE s
      entries == CommonFields \o BranchFields(s.FIRMWARE_NAME)
  IN [s1 EXCEPT !.store = ParseEntries(s1.store, s1.rx, entries, 1, line, restoreBackup)]

RECURSIVE ParseLines(_, _, _, _)
\* _.each(lines, function (line) { self.eepromFieldParse(line, restoreBackup); })
\* acksParsed counts the lines holding "ok" among those handed over.
ParseLines(s, lines, k, restoreBackup) ==
  IF k > Len(lines) THEN s
  ELSE LET seen == IF MatchesOK(lines[k]) THEN [s EXCEPT !.acksParsed = @ + 1] ELSE s
       IN ParseLines(eepromFieldParse(seen, lines[k], restoreBackup),
                     lines, k + 1, restoreBackup)

\* An identity loop body that joins the two tokens without the space.
identifyLineNoSpace(s, line) ==
  LET m == FirmwareExec(line) IN
  IF m = NoMatch THEN s
  ELSE LET name == m[2] \o m[3]
           s1 == [s EXCEPT !.FIRMWARE_NAME = name, !.rx = setRegExVars(s.rx, name)]
       IN IF MarlinTest(m) THEN isMarlinFirmware(s1, TRUE) ELSE s1

\* The body run for one line of the identity loops (lines 1286-1299, 1307-1322).
identifyLine(s, line) ==
  LET m == FirmwareExec(line) IN
  IF m = NoMatch THEN s
  ELSE LET name == m[2] \o " " \o m[3]
           s1 == [s EXCEPT !.FIRMWARE_NAME = name, !.rx = setRegExVars(s.rx, name)]
       IN IF MarlinTest(m) THEN isMarlinFirmware(s1, TRUE) ELSE s1

RECURSIVE IdentifyLines(_, _, _)
IdentifyLines(s, lines, k) ==
  IF k > Len(lines) THEN s ELSE IdentifyLines(identifyLine(s, lines[k]), lines, k + 1)

\* fromHistoryData (lines 1284-1301).
fromHistoryData(s, logs) == IdentifyLines(s, logs, 1)

RECURSIVE Join(_)
\* Array.prototype.toString: the elements with a comma between them.
Join(lines) ==
  IF lines = <<>> THEN <<>>
  ELSE IF Len(lines) = 1 THEN lines[1]
  ELSE lines[1] \o <<COMMA>> \o Join(Tail(lines))

RECURSIVE ReplaceRecv(_)
\* replace(/Recv/gi, "\nRecv") (line 1338).
ReplaceRecv(text) ==
  IF text = <<>> THEN <<>>
  ELSE IF Head(text).t = "Recv" THEN <<NL, Head(text)>> \o ReplaceRecv(Tail(text))
  ELSE <<Head(text)>> \o ReplaceRecv(Tail(text))

RECURSIVE ReplaceCommaNewline(_)
\* replace(/,\n/gi, "\n") (line 1339).
ReplaceCommaNewline(text) ==
  IF text = <<>> THEN <<>>
  ELSE IF Len(text) >= 2 /\ text[1].t = "," /\ text[2].t = "\n"
       THEN <<NL>> \o ReplaceCommaNewline(Tail(Tail(text)))
  ELSE <<Head(text)>> \o ReplaceCommaNewline(Tail(text))

\* An end of capture that leaves execBackup set.
finishBackupStillCapturing(s) ==
  LET text == ReplaceCommaNewline(ReplaceRecv(s.backupConfig))
  IN [s EXCEPT !.backupConfig = text, !.downloads = Append(@, text), !.timers = @ + 1]

\* The end of a capture (lines 1337-1370): the text is normalised, emitted
\* as a download and a re-enable of the controls is scheduled.
finishBackup(s) ==
  LET text == ReplaceCommaNewline(ReplaceRecv(s.backupConfig))
  IN scheduleEnable([s EXCEPT !.execBackup = FALSE,
                              !.backupConfig = text,
                              !.downloads = Append(@, text)])

\* A fromCurrentData that goes on, in the batch that identified Marlin, with
\* the capture and the extraction of that batch.
fromCurrentDataGoesOn(s, logs) ==
  LET s0 == IF ~s.isMarlinFirmware THEN IdentifyLines(s, logs, 1) ELSE s IN
  IF ~s0.isMarlinFirmware THEN s0
  ELSE LET s1 == IF MatchesM501(Join(logs)) THEN [s0 EXCEPT !.startBackup = TRUE] ELSE s0
           s2 == IF s1.execBackup /\ s1.startBackup
                 THEN LET s3 == [s1 EXCEPT !.backupConfig = @ \o Join(logs) \o <<NL>>]
                      IN IF RegExTest(s3.rx.M851, s3.backupConfig) \/ MatchesOK(s3.backupConfig)
                         THEN finishBackup(s3)
                         ELSE s3
                 ELSE s1
       IN ParseLines(s2, logs, 1, FALSE)

\* fromCurrentData (lines 1303-1379).
fromCurrentData(s, logs) ==
  IF ~s.isMarlinFirmware THEN IdentifyLines(s, logs, 1)
  ELSE LET s1 == IF MatchesM501(Join(logs)) THEN [s EXCEPT !.startBackup = TRUE] ELSE s
           s2 == IF s1.execBackup /\ s1.startBackup
                 THEN LET s3 == [s1 EXCEPT !.backupConfig = @ \o Join(logs) \o <<NL>>]
                      IN IF RegExTest(s3.rx.M851, s3.backupConfig) \/ MatchesOK(s3.backupConfig)
                         THEN finishBackup(s3)
                         ELSE s3
                 ELSE s1
       IN ParseLines(s2, logs, 1, FALSE)

\* backupEeprom (lines 1439-1466).
backupEeprom(s) ==
  _requestEepromData(
    resetStore([setControls(s, FALSE) EXCEPT !.execBackup = TRUE, !.backupConfig = <<>>]))

\* A reset that starts the load before it sends its three commands.
resetEepromLoadsFirst(s) ==
  sendCustomCommand(
    sendCustomCommand(
      sendCustomCommand(loadEeprom(setControls(s, FALSE)), "M502"), "M500"), "M504")

\* resetEeprom, once the dialog is confirmed (lines 1482-1498).
resetEeprom(s) ==
  loadEeprom(
    sendCustomCommand(
      sendCustomCommand(
        sendCustomCommand(setControls(s, FALSE), "M502"), "M500"), "M504"))

RECURSIVE Split(_, _)
\* String.prototype.split("\n"): cur is the line being read.
Split(text, cur) ==
  IF text = <<>> THEN <<cur>>
  ELSE IF Head(text).t = "\n" THEN <<cur>> \o Split(Tail(text), <<>>)
  ELSE Split(Tail(text), Append(cur, Head(text)))

\* An onload handler that gives up at the first line yielding no field.
handleFileSelectStopsAtMalformed(s, result) ==
  LET s1 == resetStore([setControls(s, FALSE) EXCEPT !.backupConfig = result])
      lines == Split(s1.backupConfig, <<>>)
      good == {k \in 1..Len(lines) :
                 \A j \in 1..k : eepromFieldParse(s1, lines[j], TRUE).store # EmptyStore}
  IN ParseLines(s1, SubSeq(lines, 1, Cardinality(good)), 1, TRUE)

\* The FileReader's onload handler of handleFileSelect (lines 1509-1537).
handleFileSelect(s, result) ==
  LET s1 == resetStore([setControls(s, FALSE) EXCEPT !.backupConfig = result])
  IN ParseLines(s1, Split(s1.backupConfig, <<>>), 1, TRUE)

RECURSIVE SaveFieldsAll(_, _, _)
\* A loop over one array that sends every field, changed or not.
SaveFieldsAll(s, sec, k) ==
  IF k > Len(s.store[sec]) THEN s
  ELSE LET data == s.store[sec][k]
       IN SaveFieldsAll(
            [[s EXCEPT !.sent = Append(@, data.dataType \o data.value)]
               EXCEPT !.store[sec][k].origValue = data.value],
            sec, k + 1)

RECURSIVE SaveFieldsKeepsOrig(_, _, _)
\* A loop over one array that sends the changed fields and leaves origValue.
SaveFieldsKeepsOrig(s, sec, k) ==
  IF k > Len(s.store[sec]) THEN s
  ELSE LET data == s.store[sec][k]
       IN IF data.origValue # data.value
          THEN SaveFieldsKeepsOrig(
                 [s EXCEPT !.sent = Append(@, data.dataType \o data.value)], sec, k + 1)
          ELSE SaveFieldsKeepsOrig(s, sec, k + 1)

RECURSIVE SaveFields(_, _, _)
\* _.each(eepromData, function(data) { ... }) over one array (lines 1592-1597).
SaveFields(s, sec, k) ==
  IF k > Len(s.store[sec]) THEN s
  ELSE LET data == s.store[sec][k]
       IN IF data.origValue # data.value
          THEN SaveFields(
                 [_requestSaveDataToEeprom(s, data.dataType, data.value)
                    EXCEPT !.store[sec][k].origValue = data.value],
                 sec, k + 1)
          ELSE SaveFields(s, sec, k + 1)

\* The arrays in the order saveEeprom walks them (lines 1591-1727).
SaveOrder ==
  <<"Data1", "Data2", "Level", "Steps", "FRates", "MaxAccel", "Accel", "PID", "PIDB",
    "Homing", "MaterialHS0", "MaterialHS1", "MaterialHS2", "Filament", "Endstop",
    "Delta1", "Delta2", "Linear">>

RECURSIVE SaveSections(_, _)
SaveSections(s, k) ==
  IF k > Len(SaveOrder) THEN s
  ELSE SaveSections(SaveFields(s, SaveOrder[k], 1), k + 1)

\* The per-field part of saveEeprom (lines 1590-1733).
saveDirty(s) == SaveSections(s, 1)

\* A saveEeprom that sends the commit before the changed fields.
saveEepromCommitsFirst(s) ==
  loadEeprom(
    sendCustomCommand(
      saveDirty(sendCustomCommand(setControls(s, FALSE), "M500")), "M504"))

\* saveEeprom (lines 1586-1749).
saveEeprom(s) ==
  loadEeprom(
    sendCustomCommand(
      sendCustomCommand(saveDirty(setControls(s, FALSE)), "M500"), "M504"))

----------------------------------------------------------------------------
\* State.

VARIABLES
  execBackup,        \* self.execBackup
  startBackup,       \* self.startBackup
  backupConfig,      \* self.backupConfig, a text
  stateControls,     \* self.stateControls
  FIRMWARE_NAME,     \* self.FIRMWARE_NAME()
  rx,                \* the pattern variables self.eeprom<X>RegEx
  isMarlin,          \* self.isMarlinFirmware()
  store,             \* the 18 arrays self.eepromData<Section>()
  printing,          \* self.isPrinting(): the connection is printing or paused
  timers,            \* scheduled setControls(true) callbacks not yet run
  readerPending,     \* the files whose FileReader has not loaded yet: none or one
  sent,              \* commands sent by the last handler, in order
  downloads,         \* the backup texts emitted so far
  lastOp,            \* history: the handler that ran last
  acksParsed,        \* history: acknowledgement lines the last handler passed to eepromFieldParse
  markerSeen,        \* history: an M501 line was delivered since the last backupEeprom
  nLines,            \* lines delivered so far
  nOps               \* user actions and connection events so far

vars ==
  <<execBackup, startBackup, backupConfig, stateControls, FIRMWARE_NAME, rx, isMarlin,
    store, printing, timers, readerPending, sent, downloads, lastOp, acksParsed,
    markerSeen, nLines, nOps>>

\* The object as a handler finds it; sent and acksParsed start empty.
Self ==
  [execBackup |-> execBackup, startBackup |-> startBackup, backupConfig |-> backupConfig,
   stateControls |-> stateControls, FIRMWARE_NAME |-> FIRMWARE_NAME, rx |-> rx,
   isMarlinFirmware |-> isMarlin, store |-> store, printing |-> printing,
   timers |-> timers, downloads |-> downloads,
   sent |-> <<>>, acksParsed |-> 0]

\* The object as a handler leaves it.
Commit(s, op) ==
  /\ execBackup' = s.execBackup
  /\ startBackup' = s.startBackup
  /\ backupConfig' = s.backupConfig
  /\ stateControls' = s.stateControls
  /\ FIRMWARE_NAME' = s.FIRMWARE_NAME
  /\ rx' = s.rx
  /\ isMarlin' = s.isMarlinFirmware
  /\ store' = s.store
  /\ timers' = s.timers
  /\ downloads' = s.downloads
  /\ sent' = s.sent
  /\ acksParsed' = s.acksParsed
  /\ lastOp' = op

\* The constructor (lines 9-13, 73-116).
Init ==
  /\ execBackup = FALSE
  /\ startBackup = FALSE
  /\ backupConfig = <<>>
  /\ stateControls = TRUE
  /\ FIRMWARE_NAME = ""
  /\ rx = setRegExVars(NoPatterns, "Marlin bugfix-2.0.x")
  /\ isMarlin = FALSE
  /\ store = EmptyStore
  /\ printing = FALSE
  /\ timers = 0
  /\ readerPending = <<>>
  /\ sent = <<>>
  /\ downloads = <<>>
  /\ lastOp = "init"
  /\ acksParsed = 0
  /\ markerSeen = FALSE
  /\ nLines = 0
  /\ nOps = 0

----------------------------------------------------------------------------
\* Inputs.

Url == "SOURCE_CODE_URL:https://github.com/MarlinFirmware/Marlin"
IdLine == <<RECV, Fw("FIRMWARE_NAME:Marlin 1.1.8 (Github) " \o Url)>>
SendM501Line == <<SEND, M501>>
OkLine == <<RECV, OK>>
M851Line == <<RECV, Cmd("M851", <<Pair("Z", "1.20")>>)>>
M900Line == <<RECV, Cmd("M900", <<Pair("K", "0.22"), Pair("R", "0.00")>>)>>

\* The batches the feed delivers: each line alone, and some pairs.
LiveLines == {IdLine, SendM501Line, OkLine, M851Line, M900Line}
LiveBatches ==
  {<<line>> : line \in LiveLines}
    \cup {<<SendM501Line, M900Line>>, <<M851Line, OkLine>>}
HistoryBatches == {<<IdLine>>}

\* A line that holds an acknowledgement and a family: "Recv: okM851 Z1.20".
AckM851Line == <<RECV, OK, Cmd("M851", <<Pair("Z", "1.20")>>)>>

\* The files the user can choose for a restore: the last backup emitted, and
\* a file written by hand.
HandBlob == M900Line \o <<NL>> \o AckM851Line \o <<NL>>
RestoreBlobs ==
  {HandBlob} \cup (IF downloads = <<>> THEN {} ELSE {downloads[Len(downloads)]})

\* What the user types into a field.
EditValue == "12.5"

----------------------------------------------------------------------------
\* Actions.  The buttons of load, backup, restore, reset and save are
\* disabled while stateControls is false (lines 1549-1553), so the user's
\* actions are taken only while it is true.

UserAction ==
  /\ stateControls
  /\ nOps < MaxOps
  /\ nOps' = nOps + 1
  /\ UNCHANGED <<printing, nLines>>

LoadEeprom ==
  /\ UserAction
  /\ \E s \in {loadEeprom(Self)} : Commit(s, "loadEeprom")
  /\ UNCHANGED <<readerPending, markerSeen>>

BackupEeprom ==
  /\ UserAction
  /\ \E s \in {backupEeprom(Self)} : Commit(s, "backupEeprom")
  /\ markerSeen' = FALSE
  /\ UNCHANGED readerPending

\* restoreEeprom (lines 1468-1477) opens the file dialog and handleFileSelect
\* (lines 1502-1543) starts a FileReader on the file chosen.
RestoreEeprom(result) ==
  /\ UserAction
  /\ readerPending = <<>>
  /\ readerPending' = <<result>>
  /\ \E s \in {Self} : Commit(s, "restoreEeprom")
  /\ UNCHANGED markerSeen

\* The FileReader has loaded the file: its onload handler runs.
HandleFileSelect ==
  /\ readerPending # <<>>
  /\ readerPending' = <<>>
  /\ \E s \in {handleFileSelect(Self, readerPending[1])} : Commit(s, "handleFileSelect")
  /\ UNCHANGED <<printing, markerSeen, nLines, nOps>>

ResetEeprom ==
  /\ UserAction
  /\ \E s \in {resetEeprom(Self)} : Commit(s, "resetEeprom")
  /\ UNCHANGED <<readerPending, markerSeen>>

SaveEeprom ==
  /\ UserAction
  /\ \E s \in {saveEeprom(Self)} : Commit(s, "saveEeprom")
  /\ UNCHANGED <<readerPending, markerSeen>>

\* The user types a value into a field's input; the inputs are not disabled
\* with the buttons.
Edit(sec, k) ==
  /\ nOps < MaxOps
  /\ nOps' = nOps + 1
  /\ store[sec][k].value # EditValue
  /\ \E s \in {[Self EXCEPT !.store[sec][k].value = EditValue]} : Commit(s, "edit")
  /\ UNCHANGED <<printing, readerPending, markerSeen, nLines>>

FromCurrentData(logs) ==
  /\ nLines + Len(logs) <= MaxLines
  /\ nLines' = nLines + Len(logs)
  /\ \E s \in {fromCurrentData(Self, logs)} : Commit(s, "fromCurrentData")
  /\ markerSeen' = (markerSeen \/ MatchesM501(Join(logs)))
  /\ UNCHANGED <<printing, readerPending, nOps>>

\* The backlog of the terminal reaches fromHistoryData before the live feed
\* starts.
FromHistoryData(logs) ==
  /\ nLines = 0
  /\ \E s \in {fromHistoryData(Self, logs)} : Commit(s, "fromHistoryData")
  /\ UNCHANGED <<printing, readerPending, markerSeen, nLines, nOps>>

\* A scheduled callback runs: setControls(true).
TimerFire ==
  /\ timers > 0
  /\ \E s \in {[setControls(Self, TRUE) EXCEPT !.timers = @ - 1]} : Commit(s, "timer")
  /\ UNCHANGED <<printing, readerPending, markerSeen, nLines, nOps>>

\* onEventConnected (lines 1424-1428).
OnEventConnected ==
  /\ nOps < MaxOps
  /\ nOps' = nOps + 1
  /\ \E s \in {_requestFirmwareInfo(Self)} : Commit(s, "onEventConnected")
  /\ UNCHANGED <<printing, readerPending, markerSeen, nLines>>

\* onEventDisconnected (lines 1435-1437).
OnEventDisconnected ==
  /\ nOps < MaxOps
  /\ nOps' = nOps + 1
  /\ \E s \in {isMarlinFirmware(Self, FALSE)} : Commit(s, "onEventDisconnected")
  /\ UNCHANGED <<printing, readerPending, markerSeen, nLines>>

\* The connection starts or stops printing (or pausing); no handler of the
\* view model runs.
SetPrinting ==
  /\ nOps < MaxOps
  /\ nOps' = nOps + 1
  /\ printing' = ~printing
  /\ \E s \in {Self} : Commit(s, "setPrinting")
  /\ UNCHANGED <<readerPending, markerSeen, nLines>>

Next ==
  \/ LoadEeprom
  \/ BackupEeprom
  \/ \E result \in RestoreBlobs : RestoreEeprom(result)
  \/ HandleFileSelect
  \/ ResetEeprom
  \/ SaveEeprom
  \/ \E sec \in Sections : \E k \in 1..Len(store[sec]) : Edit(sec, k)
  \/ \E logs \in LiveBatches : FromCurrentData(logs)
  \/ \E logs \in HistoryBatches : FromHistoryData(logs)
  \/ TimerFire
  \/ OnEventConnected
  \/ OnEventDisconnected
  \/ SetPrinting

Spec == Init /\ [][Next]_vars

\* setTimeout runs its callback once the delay has passed: a pending
\* callback is not postponed for ever.
LiveSpec == Spec /\ WF_vars(TimerFire)

----------------------------------------------------------------------------
\* Extraction runs: the feed identifies firmwares of every group and
\* delivers lines of the command families, and a dump is restored from a file.

IdBugfixLine == <<RECV, Fw("FIRMWARE_NAME:Marlin bugfix-2.0.x " \o Url)>>
IdRCLine == <<RECV, Fw("FIRMWARE_NAME:Marlin 1.1.0-RC5 (Github) " \o Url)>>
IdLegacyLine ==
  <<RECV, Fw("FIRMWARE_NAME:Marlin V1.0.2; Sprinter/grbl mashup for gen6 FIRMWARE_URL:" \o Url)>>
IdNewerLine == <<RECV, Fw("FIRMWARE_NAME:Marlin 1.1.9 (Github) " \o Url)>>
IdOtherLine ==
  <<RECV, Fw("FIRMWARE_NAME:Repetier_1.0.3 FIRMWARE_URL:https://github.com/repetier")>>
IdLines == {IdLine, IdBugfixLine, IdRCLine, IdLegacyLine, IdNewerLine, IdOtherLine}

\* One line per family, each slot with a value of its own.  M205 comes in
\* the slot order of the stable releases, of bugfix-2.0.x, and without the
\* Y slot as the release candidates and 1.0.2 print it.
M92Line ==
  <<RECV, Cmd("M92", <<Pair("X", "80.00"), Pair("Y", "80.00"),
                       Pair("Z", "400.00"), Pair("E", "500.00")>>)>>
M92AxesLine ==
  <<RECV, Cmd("M92", <<Pair("X", "100.50"), Pair("Y", "101.50"),
                       Pair("Z", "1600.00"), Pair("E", "95.00")>>)>>
M205Line ==
  <<RECV, Cmd("M205", <<Pair("S", "0.10"), Pair("T", "0.20"), Pair("B", "20000"),
                        Pair("X", "10.00"), Pair("Y", "11.00"), Pair("Z", "0.40"),
                        Pair("E", "5.00")>>)>>
M205BugfixLine ==
  <<RECV, Cmd("M205", <<Pair("B", "20000"), Pair("S", "0.10"), Pair("T", "0.20"),
                        Pair("X", "10.00"), Pair("Y", "11.00"), Pair("Z", "0.40"),
                        Pair("E", "5.00")>>)>>
M205NoYLine ==
  <<RECV, Cmd("M205", <<Pair("S", "0.10"), Pair("T", "0.20"), Pair("B", "20000"),
                        Pair("X", "10.00"), Pair("Z", "0.40"), Pair("E", "5.00")>>)>>
M665Line ==
  <<RECV, Cmd("M665", <<Pair("L", "250.00"), Pair("R", "124.80"), Pair("H", "257.30"),
                        Pair("S", "160"), Pair("B", "130.00"), Pair("X", "0.01"),
                        Pair("Y", "0.02"), Pair("Z", "0.03")>>)>>
M145Line ==
  <<RECV, Cmd("M145 S0", <<Pair("H", "180"), Pair("B", "70"), Pair("F", "255")>>)>>
M420Line == <<RECV, Cmd("M420", <<Pair("S", "1"), Pair("Z", "10.00")>>)>>
M420SOnlyLine == <<RECV, Cmd("M420", <<Pair("S", "1")>>)>>
M200Line == <<RECV, Cmd("M200", <<Pair("D", "1.75")>>)>>
M200OtherLine == <<RECV, Cmd("M200", <<Pair("D", "3.00")>>)>>
\* An M92 line cut after its first slot: the pattern needs all four.
M92CutLine == <<RECV, Cmd("M92", <<Pair("X", "80.00")>>)>>
FamilyLines ==
  {M92Line, M205Line, M205BugfixLine, M205NoYLine, M665Line, M145Line, M420Line,
   M851Line, M900Line}

\* The lines the feed of an extraction run delivers.
ExtractLines == IdLines \cup {OkLine, M92Line, M205Line}

\* The identity lines a backlog holds: of a Marlin and of another firmware.
HistoryIdLines == {IdBugfixLine, IdOtherLine}

\* A dump saved to a file.
DumpBlob ==
  M92Line \o <<NL>> \o M92CutLine \o <<NL>> \o M205Line \o <<NL>> \o M665Line \o <<NL>>
    \o M900Line \o <<NL>> \o M200Line \o <<NL>> \o M200OtherLine \o <<NL>>
    \o M420SOnlyLine \o <<NL>>

\* The same file without its malformed line.
CleanDumpBlob ==
  M92Line \o <<NL>> \o M205Line \o <<NL>> \o M665Line \o <<NL>>
    \o M900Line \o <<NL>> \o M200Line \o <<NL>> \o M200OtherLine \o <<NL>>
    \o M420SOnlyLine \o <<NL>>

\* A file none of whose lines matches a family: a cut line, a line of
\* another kind and an empty line.
JunkBlob == M92CutLine \o <<NL>> \o IdLine \o <<NL, NL>>

ExtractBlobs == {DumpBlob, JunkBlob}

\* The backlog of the terminal reaches fromHistoryData again when the
\* client reconnects to the server.
FromHistoryDataAgain(logs) ==
  /\ nLines + Len(logs) <= MaxLines
  /\ nLines' = nLines + Len(logs)
  /\ \E s \in {fromHistoryData(Self, logs)} : Commit(s, "fromHistoryData")
  /\ UNCHANGED <<printing, readerPending, markerSeen, nOps>>

ExtractNext ==
  \/ \E line \in ExtractLines : FromCurrentData(<<line>>)
  \/ \E line \in HistoryIdLines : FromHistoryDataAgain(<<line>>)
  \/ OnEventDisconnected
  \/ \E blob \in ExtractBlobs : RestoreEeprom(blob)
  \/ HandleFileSelect
  \/ TimerFire

ExtractSpec == Init /\ [][ExtractNext]_vars

----------------------------------------------------------------------------
\* Backup runs: the feed delivers the dump in batches in which commands the
\* host sends meanwhile (a temperature poll, Send: M105) sit between the
\* firmware's responses.
SendM105Line == <<SEND, Cmd("M105", <<>>)>>
BackupBatches ==
  {<<SendM501Line>>, <<M900Line>>, <<M851Line>>, <<OkLine>>,
   <<SendM501Line, M900Line>>, <<M900Line, SendM105Line>>, <<M851Line, SendM105Line>>,
   <<IdLine, M851Line>>, <<SendM501Line, M851Line>>}

BackupNext ==
  \/ FromHistoryData(<<IdLine>>)
  \/ BackupEeprom
  \/ LoadEeprom
  \/ \E logs \in BackupBatches : FromCurrentData(logs)
  \/ TimerFire

BackupSpec == Init /\ [][BackupNext]_vars

----------------------------------------------------------------------------
\* Properties.

Last(seq) == seq[Len(seq)]

Dirty(data) == data.origValue # data.value

\* The commands of the changed fields of one section, in insertion order.
DirtyCommandsOf(st, sec) ==
  LET dirty == SelectSeq(st[sec], Dirty)
  IN [i \in 1..Len(dirty) |-> dirty[i].dataType \o dirty[i].value]

\* The commands of the changed fields of a store, section after section.
DirtyCommands(st) ==
  DirtyCommandsOf(st, "Data1") \o DirtyCommandsOf(st, "Data2")
    \o DirtyCommandsOf(st, "Level") \o DirtyCommandsOf(st, "Steps")
    \o DirtyCommandsOf(st, "FRates") \o DirtyCommandsOf(st, "MaxAccel")
    \o DirtyCommandsOf(st, "Accel") \o DirtyCommandsOf(st, "PID")
    \o DirtyCommandsOf(st, "PIDB") \o DirtyCommandsOf(st, "Homing")
    \o DirtyCommandsOf(st, "MaterialHS0") \o DirtyCommandsOf(st, "MaterialHS1")
    \o DirtyCommandsOf(st, "MaterialHS2") \o DirtyCommandsOf(st, "Filament")
    \o DirtyCommandsOf(st, "Endstop") \o DirtyCommandsOf(st, "Delta1")
    \o DirtyCommandsOf(st, "Delta2") \o DirtyCommandsOf(st, "Linear")

Fixed == {"M500", "M501", "M502", "M504", "M115"}

\* The commands sent before the first fixed command.
RECURSIVE PerFieldCommands(_)
PerFieldCommands(cmds) ==
  IF cmds = <<>> \/ Head(cmds) \in Fixed THEN <<>>
  ELSE <<Head(cmds)>> \o PerFieldCommands(Tail(cmds))

\* What follows them.
AfterPerField(cmds) == SubSeq(cmds, Len(PerFieldCommands(cmds)) + 1, Len(cmds))

DumpRequest == <<"M504", "M501">>

\* C1: a save sends, before its commit, exactly the commands dataType+value
\* of the fields whose value differs from origValue when it is called, one
\* each, sections in the fixed order and fields in insertion order; what
\* follows holds no per-field command.
C1_SaveSendsExactlyDirty ==
  [][lastOp' = "saveEeprom" =>
       /\ PerFieldCommands(sent') = DirtyCommands(store)
       /\ \A i \in 1..Len(AfterPerField(sent')) : AfterPerField(sent')[i] \in Fixed]_vars

\* A save of a store with one changed field among three has run.
C1_Witness ==
  /\ lastOp = "saveEeprom"
  /\ sent = <<"M900 K12.5", "M500", "M504", "M504", "M501">>

\* C2: the diff of a save leaves every field with origValue equal to its
\* value, and the diff computed again on the store it leaves sends nothing
\* and changes nothing.
C2_SaveIdempotent ==
  [][lastOp' = "saveEeprom" =>
       LET once == saveDirty(Self)
           twice == saveDirty([once EXCEPT !.sent = <<>>])
       IN /\ once.sent = PerFieldCommands(sent')
          /\ \A sec \in Sections : \A k \in 1..Len(once.store[sec]) :
               once.store[sec][k].origValue = once.store[sec][k].value
          /\ twice.sent = <<>>
          /\ twice.store = once.store]_vars

\* A save of a restored store, every field of which was changed, has run.
C2_Witness ==
  /\ lastOp = "saveEeprom"
  /\ PerFieldCommands(sent) = <<"M851 Z1.20", "M900 K0.22", "M900 R0.00">>

\* C3 as stated: a save sends the per-field commands, then one M500, then
\* M504, and then starts a load cycle: the store is reset and the dump is
\* requested.
C3_SaveOrderWithDump ==
  [][lastOp' = "saveEeprom" =>
       /\ AfterPerField(sent') = <<"M500", "M504">> \o DumpRequest
       /\ store' = EmptyStore]_vars

\* C3 as amended: as above, the dump being requested unless the connection
\* is printing or paused.
C3_SaveOrder ==
  [][lastOp' = "saveEeprom" =>
       /\ AfterPerField(sent')
            = <<"M500", "M504">> \o (IF printing THEN <<>> ELSE DumpRequest)
       /\ store' = EmptyStore]_vars

\* A save with per-field commands, the commit, the recompute and the dump
\* request has run.
C3_Witness ==
  /\ lastOp = "saveEeprom"
  /\ ~printing
  /\ Len(PerFieldCommands(sent)) > 0
  /\ AfterPerField(sent) = <<"M500", "M504", "M504", "M501">>
  /\ store = EmptyStore

\* The (dataType, value) pairs of a store, section by section.
StorePairs(st) ==
  [sec \in Sections |->
     [k \in 1..Len(st[sec]) |-> <<st[sec][k].dataType, st[sec][k].value>>]]

\* A text holds an M851 line or an acknowledgement.
HasTerminal(text) ==
  \E i \in 1..Len(text) :
    text[i].t = "ok" \/ (text[i].t = "cmd" /\ text[i].fam = "M851")

\* C4: restoring the snapshot a backup has emitted, the live store being
\* unmodified, gives a store with the (dataType, value) pairs of the live
\* store, section by section, and with every origValue empty.
C4_BackupRestoreRoundTrip ==
  [][(/\ lastOp' = "handleFileSelect"
      /\ ~execBackup
      /\ downloads # <<>>
      /\ readerPending = <<Last(downloads)>>
      /\ \A sec \in Sections : \A k \in 1..Len(store[sec]) : ~Dirty(store[sec][k]))
       => /\ StorePairs(store') = StorePairs(store)
          /\ \A sec \in Sections : \A k \in 1..Len(store'[sec]) :
               store'[sec][k].origValue = ""]_vars

\* C5: while a backup session has not seen an M501 line since backupEeprom
\* was called, a delivery adds nothing to the accumulated text and emits no
\* snapshot.
C5_NothingAccumulatedBeforeMarker ==
  [][(lastOp' = "fromCurrentData" /\ execBackup /\ ~markerSeen')
       => (backupConfig' = backupConfig /\ downloads' = downloads)]_vars

\* C6: a delivery that adds to the accumulated text of a capturing session
\* ends the session exactly when the text then holds an M851 line or an
\* acknowledgement; the end of a session clears execBackup, emits the text
\* as one snapshot and schedules a re-enable; no other step emits a snapshot.
C6_DoneAtTerminal ==
  [][/\ (execBackup /\ lastOp' = "fromCurrentData" /\ backupConfig' # backupConfig)
          => (~execBackup' <=> HasTerminal(backupConfig'))
     /\ (execBackup /\ ~execBackup')
          => /\ lastOp' = "fromCurrentData"
             /\ HasTerminal(backupConfig')
             /\ downloads' = Append(downloads, backupConfig')
             /\ timers' > timers
     /\ ~(execBackup /\ ~execBackup') => downloads' = downloads]_vars

\* A capturing session has ended on a delivery, with its snapshot emitted
\* and a re-enable pending.
C6_Witness ==
  /\ lastOp = "fromCurrentData"
  /\ ~execBackup
  /\ Len(downloads) = 1
  /\ backupConfig = downloads[1]
  /\ HasTerminal(backupConfig)
  /\ timers > 0

\* C7: a capturing session with controls disabled whose accumulated text
\* holds no M851 line and no acknowledgement after a step is still capturing
\* after it, with controls still disabled.
C7_StalledSessionKeepsControlsDisabled ==
  [][(execBackup /\ ~stateControls /\ ~HasTerminal(backupConfig'))
       => (execBackup' /\ ~stateControls')]_vars

\* C8: controls are never enabled while a backup session is capturing.
C8_ControlsDisabledWhileCapturing == ~(execBackup /\ stateControls)

CycleOps == {"loadEeprom", "backupEeprom", "handleFileSelect", "saveEeprom", "resetEeprom"}

\* C9: right after loadEeprom, backupEeprom, the restore file handler,
\* saveEeprom and a confirmed resetEeprom, stateControls is false.
C9_ControlsDisabledOnEntry == lastOp \in CycleOps => ~stateControls

\* The restore file handler has run on a file with an acknowledgement, which
\* scheduled a re-enable, and controls are disabled.
C9_Witness ==
  /\ lastOp = "handleFileSelect"
  /\ timers > 0
  /\ ~stateControls

\* C10: a handler that passes lines holding an acknowledgement to the
\* extractor schedules a re-enable for each, and once it has, the timer
\* callback runs and sets controls to enabled.
C10_AckSchedulesEnable ==
  /\ [][acksParsed' > 0 => timers' >= timers + acksParsed']_vars
  /\ (acksParsed > 0) ~> (lastOp = "timer" /\ stateControls)

\* The restore file handler has passed a line holding an acknowledgement
\* and an M851 family to the extractor: the field is stored and a re-enable
\* is pending.
C10_Witness ==
  /\ lastOp = "handleFileSelect"
  /\ acksParsed = 1
  /\ store["Data1"] # <<>>
  /\ timers > 0

\* C11: a step that starts a load, backup or restore cycle leaves no field
\* of the store it found: after loadEeprom (called directly, by a save or a
\* reset, or by the change of isMarlinFirmware) and after backupEeprom the
\* 18 sections are empty, and after the restore file handler the store
\* holds the fields of the file only.
C11_StoreEmptiedAtCycleStart ==
  [][/\ lastOp' \in {"loadEeprom", "backupEeprom", "saveEeprom", "resetEeprom"}
          => store' = EmptyStore
     /\ isMarlin' # isMarlin => store' = EmptyStore
     /\ lastOp' = "handleFileSelect"
          => store' = ParseLines([Self EXCEPT !.store = EmptyStore],
                                 Split(backupConfig', <<>>), 1, TRUE).store]_vars

\* A save has sent the command of a changed field, so the store held
\* fields, and the load cycle it started has emptied the store.
C11_Witness ==
  /\ lastOp = "saveEeprom"
  /\ sent[1] = "M851 Z12.5"
  /\ store = EmptyStore

\* C12: a field a live delivery appends has origValue equal to its value; a
\* field of a restore has an empty origValue, and its value is the one the
\* same line gives when it is extracted live.
C12_OrigValueByMode ==
  [][/\ lastOp' = "fromCurrentData"
          => \A sec \in Sections : \A k \in 1..Len(store'[sec]) :
               k > Len(store[sec]) => store'[sec][k].origValue = store'[sec][k].value
     /\ lastOp' = "handleFileSelect"
          => /\ \A sec \in Sections : \A k \in 1..Len(store'[sec]) :
                  store'[sec][k].origValue = ""
             /\ StorePairs(store')
                  = StorePairs(ParseLines([Self EXCEPT !.store = EmptyStore],
                                          Split(readerPending[1], <<>>), 1, FALSE).store)]_vars

\* A dump was restored and a live M92 line was extracted after it: the
\* restored fields have an empty origValue, the live ones their value.
C12_Witness ==
  /\ lastOp = "fromCurrentData"
  /\ Len(store["Steps"]) = 8
  /\ store["Steps"][1].origValue = "" /\ store["Steps"][1].value = "80.00"
  /\ store["Steps"][5].origValue = "80.00" /\ store["Steps"][5].value = "80.00"

\* The fields a call of eepromFieldParse on line would append, all sections
\* together.
Appended(line, restoreBackup) ==
  UNION {UNION {{after[sec][k] : k \in (Len(store[sec]) + 1)..Len(after[sec])} :
                  sec \in Sections} :
           after \in {eepromFieldParse(Self, line, restoreBackup).store}}

\* The slot tag a dataType ends with ("M205 S" has S).
TagOf(dataType) == SubSeq(dataType, Len(dataType), Len(dataType))

\* The active patterns capture on line a slot tagged tag with value value.
Captured(line, tag, value) ==
  \E k \in 1..Len(CommonFields \o BranchFields(FIRMWARE_NAME)) :
    LET e == (CommonFields \o BranchFields(FIRMWARE_NAME))[k]
        m == RegExExec(rx[e.rx], line)
    IN \E j \in 1..Len(m) : j % 2 = 1 /\ j < Len(m) /\ m[j] = tag /\ m[j + 1] = value

\* C13: once an identity is known, a field extracted from an M205, M665 or M900
\* line carries the value the active pattern captured for the slot its
\* dataType names, and no field is emitted for a slot the pattern lacks.
C13_FieldCarriesItsSlot ==
  FIRMWARE_NAME # "" =>
  \A line \in {M205Line, M205BugfixLine, M205NoYLine, M665Line, M900Line} :
    \A restoreBackup \in BOOLEAN : \A f \in Appended(line, restoreBackup) :
      Captured(line, TagOf(f.dataType), f.value)

\* C14: while the identity is of the legacy 1.0.2 family, extracting a line,
\* live or from a file, appends no M205 Y field and no M145 or M420 field.
C14_LegacyNeverEmitsYJerk ==
  FIRMWARE_NAME \in LegacyVersions =>
    \A line \in FamilyLines : \A restoreBackup \in BOOLEAN :
      \A f \in Appended(line, restoreBackup) :
        /\ f.dataType # "M205 Y"
        /\ SubSeq(f.dataType, 1, 4) \notin {"M145", "M420"}

\* A legacy identity was read and an M205 line extracted under it.
C14_Witness ==
  /\ FIRMWARE_NAME = "Marlin V1.0.2;"
  /\ lastOp = "fromCurrentData"
  /\ Len(store["Data2"]) = 3
  /\ store["Data2"][2].dataType = "M205 Z"

\* C15: while the identity is one of the release candidates RC1 to RC7,
\* extracting an M205 line appends no M205 Y field: it appends one field for
\* each slot the pattern captures, S, T, B, X, Z and E.
C15_RCHasNoYJerk ==
  FIRMWARE_NAME \in RCVersions =>
    \A line \in {M205Line, M205NoYLine} : \A restoreBackup \in BOOLEAN :
      /\ {f.dataType : f \in Appended(line, restoreBackup)}
           = {"M205 S", "M205 T", "M205 B", "M205 X", "M205 Z", "M205 E"}
      /\ Cardinality(Appended(line, restoreBackup)) = 6

\* The names setRegExVars has a group for.
Registered == {"Marlin bugfix-2.0.x"} \cup StableVersions \cup RCVersions \cup LegacyVersions

\* C16: under an identity that is in no registered group, every line, live
\* or restored, is extracted exactly as under 'Marlin 1.1.8': the patterns
\* are those of 'Marlin 1.1.8' and the store after the line is the same under
\* the two identities.
C16_UnregisteredAsLatestStable ==
  (FIRMWARE_NAME # "" /\ FIRMWARE_NAME \notin Registered) =>
    /\ rx = setRegExVars(rx, "Marlin 1.1.8")
    /\ \A line \in FamilyLines : \A restoreBackup \in BOOLEAN :
      \E stable \in {[Self EXCEPT !.FIRMWARE_NAME = "Marlin 1.1.8",
                                    !.rx = setRegExVars(rx, "Marlin 1.1.8")]} :
        eepromFieldParse(Self, line, restoreBackup).store
          = eepromFieldParse(stable, line, restoreBackup).store

\* An identity of no registered group was read and an M205 line extracted
\* under it into seven fields.
C16_Witness ==
  /\ FIRMWARE_NAME = "Marlin 1.1.9"
  /\ lastOp = "fromCurrentData"
  /\ Len(store["Data1"]) = 3
  /\ Len(store["Data2"]) = 4

\* The vendor token and the version token of an identity line, joined by one
\* space.
NameOn(line) ==
  CASE line = IdLine -> "Marlin 1.1.8"
    [] line = IdBugfixLine -> "Marlin bugfix-2.0.x"
    [] line = IdRCLine -> "Marlin 1.1.0-RC5"
    [] line = IdLegacyLine -> "Marlin V1.0.2;"
    [] line = IdNewerLine -> "Marlin 1.1.9"
    [] line = IdOtherLine -> "Repetier_1.0.3 FIRMWARE_URL:https://github.com/repetier"

\* Every pattern eepromFieldParse consults under the identity name is, in
\* grammar, the pattern setRegExVars assigns for name.
GrammarOf(name, grammar) ==
  \E registered \in {setRegExVars(NoPatterns, name)} :
    \E entries \in {CommonFields \o BranchFields(name)} :
      \A k \in 1..Len(entries) : grammar[entries[k].rx] = registered[entries[k].rx]

\* C17: when an identity line is processed (any line of history data, a live
\* line while no Marlin firmware is known), the identity becomes the vendor
\* and version tokens joined by one space and extraction goes by the grammar
\* registered for it; the bugfix-2.0.x line gives 'Marlin bugfix-2.0.x' and
\* the bugfix patterns.
C17_IdentityFromLine ==
  [][\A line \in IdLines :
       (\/ lastOp' = "fromHistoryData" /\ FromHistoryDataAgain(<<line>>)
        \/ lastOp' = "fromCurrentData" /\ ~isMarlin /\ FromCurrentData(<<line>>))
         => \E name \in {FIRMWARE_NAME'} : \E grammar \in {rx'} :
              /\ name = NameOn(line)
              /\ GrammarOf(name, grammar)
              /\ line = IdBugfixLine
                   => /\ name = "Marlin bugfix-2.0.x"
                      /\ grammar = setRegExVars(NoPatterns, "Marlin bugfix-2.0.x")]_vars

\* The bugfix-2.0.x identity line was processed by fromHistoryData after an
\* earlier line.
C17_Witness ==
  /\ FIRMWARE_NAME = "Marlin bugfix-2.0.x"
  /\ rx.M205 = Slots("M205", <<"B", "S", "T", "X", "Y", "Z", "E">>)
  /\ lastOp = "fromHistoryData"
  /\ nLines >= 2

\* C18: once a Marlin identity line has set the identity in a connection
\* session, no later delivery of the live feed or of history data changes
\* the identity or the patterns before the next disconnect.
C18_IdentityImmutableInSession ==
  [][(isMarlin /\ lastOp' \in {"fromCurrentData", "fromHistoryData"})
       => (FIRMWARE_NAME' = FIRMWARE_NAME /\ rx' = rx)]_vars

\* C19: a disconnect resets the identity to unknown: in the state
\* onEventDisconnected leaves, the identity is empty.
C19_DisconnectResetsIdentity ==
  lastOp = "onEventDisconnected" => FIRMWARE_NAME = ""

\* An M92 line with the four values it prints, in X, Y, Z, E order.
M92Cases ==
  {<<M92Line, <<"80.00", "80.00", "400.00", "500.00">>>>,
   <<M92AxesLine, <<"100.50", "101.50", "1600.00", "95.00">>>>}

\* C20: under every identity and its patterns, extracting an M92 line, live
\* or restored, appends exactly four fields to the steps section and none
\* elsewhere: M92 X, M92 Y, M92 Z, M92 E in that order, each with the value of
\* its axis, unit 'mm' and description 'steps per unit'; for
\* 'M92 X80.00 Y80.00 Z400.00 E500.00' the values are 80.00, 80.00, 400.00,
\* 500.00.
C20_M92AppendsFourSteps ==
  \A case \in M92Cases : \A restoreBackup \in BOOLEAN :
    \E after \in {eepromFieldParse(Self, case[1], restoreBackup).store} :
      /\ \A sec \in Sections \ {"Steps"} : after[sec] = store[sec]
      /\ Len(after["Steps"]) = Len(store["Steps"]) + 4
      /\ SubSeq(after["Steps"], 1, Len(store["Steps"])) = store["Steps"]
      /\ \A i \in 1..4 :
           LET f == after["Steps"][Len(store["Steps"]) + i]
           IN /\ f.dataType = <<"M92 X", "M92 Y", "M92 Z", "M92 E">>[i]
              /\ f.value = case[2][i]
              /\ f.unit = "mm"
              /\ f.description = "steps per unit"

\* Under a release-candidate identity the live feed delivered the M92 line
\* and the steps section holds its four fields.
C20_Witness ==
  /\ FIRMWARE_NAME = "Marlin 1.1.0-RC5"
  /\ lastOp = "fromCurrentData"
  /\ Len(store["Steps"]) = 4
  /\ store["Steps"][3].dataType = "M92 Z"
  /\ store["Steps"][3].value = "400.00"

\* The dataTypes of the fields a call of eepromFieldParse on line would
\* append to section sec, in order.
AppendedTypes(line, restoreBackup, sec) ==
  CHOOSE types \in
    {[k \in 1..(Len(after[sec]) - Len(store[sec])) |->
        after[sec][Len(store[sec]) + k].dataType] :
       after \in {eepromFieldParse(Self, line, restoreBackup).store}} : TRUE

\* C21: under a grammar that defines the M420 family (every identity but
\* the release candidates and the 1.0.2 family), an M420 line carrying only
\* the enable slot yields exactly one field, M420 S, and a line carrying
\* both slots yields M420 S then M420 Z.
C21_M420OneOrTwoFields ==
  (FIRMWARE_NAME # "" /\ FIRMWARE_NAME \notin RCVersions \cup LegacyVersions) =>
    \A restoreBackup \in BOOLEAN :
      /\ AppendedTypes(M420SOnlyLine, restoreBackup, "Level") = <<"M420 S">>
      /\ AppendedTypes(M420Line, restoreBackup, "Level") = <<"M420 S", "M420 Z">>

\* C22: the filament section never holds more than one field: an M200 line
\* extracted into an empty section is accepted, and one extracted into a
\* section that holds a field leaves the section as it is.
C22_FilamentFirstMatchOnly ==
  /\ Len(store["Filament"]) <= 1
  /\ \A line \in {M200Line, M200OtherLine} : \A restoreBackup \in BOOLEAN :
       \E after \in {eepromFieldParse(Self, line, restoreBackup).store["Filament"]} :
         /\ Len(after) = 1
         /\ after[1].dataType = "M200 D"
         /\ store["Filament"] # <<>> => after = store["Filament"]
         /\ store["Filament"] = <<>> => after[1].value = line[2].pairs[1].val

\* A file with two M200 lines was restored: the section holds the field of
\* the first one only.
C22_Witness ==
  /\ lastOp = "handleFileSelect"
  /\ Len(store["Filament"]) = 1
  /\ store["Filament"][1].value = "1.75"

\* C23: for every section but the filament one, extracting a line into a
\* store that holds fields, right after a line or a file was parsed, appends
\* its fields after the fields the section holds: the section afterwards is
\* what it held followed by the fields the line gives on an empty store, so
\* a second line of a family leaves the first line's fields in place.
C23_AppendOnlyNoDedup ==
  []((lastOp \in {"fromCurrentData", "handleFileSelect"} /\ store # EmptyStore) =>
      \A line \in FamilyLines : \A restoreBackup \in BOOLEAN :
        \E after \in {eepromFieldParse(Self, line, restoreBackup).store} :
          \E fresh \in {eepromFieldParse([Self EXCEPT !.store = EmptyStore],
                                         line, restoreBackup).store} :
            \A sec \in Sections \ {"Filament"} : after[sec] = store[sec] \o fresh[sec])

\* The live feed delivered the M92 line twice in one cycle: the steps
\* section holds the four fields of the first and then those of the second.
C23_Witness ==
  /\ lastOp = "fromCurrentData"
  /\ Len(store["Steps"]) = 8
  /\ store["Steps"][1].dataType = "M92 X" /\ store["Steps"][1].origValue = "80.00"
  /\ store["Steps"][5].dataType = "M92 X" /\ store["Steps"][5].origValue = "80.00"

\* C24: a restore of a file none of whose lines matches a family ends with
\* every section empty, and a restore of a file holding a malformed line
\* ends with the store the file without that line gives: the lines after
\* the malformed one are extracted.
C24_MalformedLinesSkipped ==
  lastOp = "handleFileSelect" =>
    /\ backupConfig = JunkBlob => store = EmptyStore
    /\ backupConfig = DumpBlob
         => store = handleFileSelect(Self, CleanDumpBlob).store

\* A file without any family line was restored.
C24_Witness ==
  /\ lastOp = "handleFileSelect"
  /\ backupConfig = JunkBlob
  /\ store = EmptyStore
  /\ FIRMWARE_NAME # ""

\* C25: a restore of a file without an acknowledgement line ends with
\* controls disabled, and the step that follows it leaves them disabled:
\* nothing but an acknowledgement processed later leads to their re-enabling.
C25_RestoreLeavesControlsDisabled ==
  [][/\ (lastOp' = "handleFileSelect" /\ acksParsed' = 0) => ~stateControls'
     /\ (lastOp = "handleFileSelect" /\ acksParsed = 0) => ~stateControls']_vars

\* The dataTypes eepromFieldParse gives a field, whatever the branch.
AllDataTypes ==
  LET all == CommonFields \o StableFields \o RCFields \o LegacyFields \o DefaultFields
  IN UNION {{all[i].fields[k].dataType : k \in 1..Len(all[i].fields)} : i \in 1..Len(all)}

\* cmd is a dataType followed by a value.
PerFieldCommand(cmd) ==
  \E dataType \in AllDataTypes :
    /\ Len(cmd) >= Len(dataType)
    /\ SubSeq(cmd, 1, Len(dataType)) = dataType

\* C26: every command a handler sends is M501, M502, M500, M504, M115 or a
\* field's dataType followed by a value.
C26_CommandsInCatalog ==
  \A i \in 1..Len(sent) : sent[i] \in Fixed \/ PerFieldCommand(sent[i])

\* A save has sent the command of an edited field and then the commit, the
\* recompute and the dump request.
C26_Witness ==
  /\ lastOp = "saveEeprom"
  /\ sent = <<"M851 Z12.5", "M500", "M504", "M504", "M501">>

\* C27: a re-enable callback scheduled before a load, backup, save or reset
\* cycle started does not enable controls in that cycle: these handlers
\* schedule no callback themselves, so a callback that runs right after one
\* of them was scheduled earlier, and it leaves controls disabled.
C27_StaleTimerKeepsControlsDisabled ==
  [][(lastOp \in {"loadEeprom", "backupEeprom", "saveEeprom", "resetEeprom"}
        /\ lastOp' = "timer")
       => ~stateControls']_vars

\* C28: before any identity line extraction goes by the fallback grammar: a
\* restore done while the identity is unknown leaves the store the same
\* restore leaves under an identity of no registered group.
C28_UnknownIdentityUsesFallback ==
  (FIRMWARE_NAME = "" /\ lastOp = "handleFileSelect") =>
    \E other \in {[Self EXCEPT !.FIRMWARE_NAME = "Marlin 1.1.9",
                               !.rx = setRegExVars(rx, "Marlin 1.1.9")]} :
      store = handleFileSelect(other, backupConfig).store

\* The number of fields of a store.
RECURSIVE CountFields(_, _)
CountFields(st, secs) ==
  IF secs = {} THEN 0
  ELSE LET sec == CHOOSE x \in secs : TRUE
       IN Len(st[sec]) + CountFields(st, secs \ {sec})

\* C29: right after a restore every field of the store is dirty, and a save
\* called then sends one per-field command for every restored field.
C29_RestoredFieldsAllDirty ==
  lastOp = "handleFileSelect" =>
    /\ \A sec \in Sections : \A k \in 1..Len(store[sec]) : Dirty(store[sec][k])
    /\ Len(PerFieldCommands(saveEeprom(Self).sent)) = CountFields(store, Sections)

\* The lines the feed of a backup run delivers.
DeliveredLines == {logs[k] : k \in 1..2, logs \in {b \in BackupBatches : Len(b) = 2}}
                    \cup {logs[1] : logs \in BackupBatches}

\* C30: every line of an emitted snapshot is empty or the text of exactly
\* one delivered line: no line holds the comma of the joined batch, and no
\* delivered line is joined to the one before it.
C30_SnapshotOneLinePerResponse ==
  \A i \in 1..Len(downloads) :
    \E lines \in {Split(downloads[i], <<>>)} :
      \A k \in 1..Len(lines) :
        /\ lines[k] = <<>> \/ lines[k] \in DeliveredLines
        /\ \A j \in 1..Len(lines[k]) : lines[k][j] # COMMA

\* C31: a batch the live feed delivers while the firmware is not identified
\* as Marlin adds no field to any section and leaves the backup session
\* (execBackup, startBackup, backupConfig, the snapshots) as it was, the
\* lines after an identity line in the batch included; a batch that changes
\* neither the identity nor the Marlin flag changes nothing at all.
C31_UnidentifiedFeedOnlyIdentifies ==
  [][(lastOp' = "fromCurrentData" /\ ~isMarlin) =>
       /\ execBackup' = execBackup
       /\ startBackup' = startBackup
       /\ backupConfig' = backupConfig
       /\ downloads' = downloads
       /\ timers' = timers
       /\ \A sec \in Sections : store'[sec] = <<>> \/ store'[sec] = store[sec]
       /\ (FIRMWARE_NAME' = FIRMWARE_NAME /\ isMarlin' = isMarlin) =>
            /\ store' = store
            /\ stateControls' = stateControls
            /\ rx' = rx
            /\ sent' = <<>>]_vars

\* A backup was requested before the firmware was identified, and the batch
\* that identified Marlin also held an M851 line: the load it started is
\* all that happened.
C31_Witness ==
  /\ lastOp = "fromCurrentData"
  /\ isMarlin
  /\ sent = DumpRequest
  /\ execBackup
  /\ backupConfig = <<>>
  /\ store = EmptyStore
  /\ nLines = 2

\* C32: a handler that writes the Marlin flag (the history feed, the live
\* feed while the flag is false, a disconnect) starts a load cycle, once,
\* exactly when the flag changes value: the store is emptied, controls are
\* disabled and, unless printing, one dump request is sent.  When the flag
\* keeps its value no command is sent and the store and the controls are
\* left as they were.
C32_LoadExactlyOnFlagChange ==
  [][(\/ lastOp' \in {"fromHistoryData", "onEventDisconnected"}
      \/ (lastOp' = "fromCurrentData" /\ ~isMarlin)) =>
       IF isMarlin' # isMarlin
       THEN /\ store' = EmptyStore
            /\ ~stateControls'
            /\ sent' = (IF printing THEN <<>> ELSE DumpRequest)
       ELSE /\ store' = store
            /\ stateControls' = stateControls
            /\ sent' = <<>>]_vars

\* An identity line of the history feed arrived while Marlin was identified
\* and the store held fields: no load was started.
C32_Witness ==
  /\ lastOp = "fromHistoryData"
  /\ isMarlin
  /\ store # EmptyStore
  /\ stateControls
  /\ sent = <<>>

\* C33: a handler that runs while the connection is printing or paused
\* sends no M501, so no dump request, and no M115; a load or a backup
\* started then sends nothing and still empties the store and disables
\* controls.
C33_NoDumpRequestWhilePrinting ==
  [][printing =>
       /\ \A i \in 1..Len(sent') : sent'[i] \notin {"M501", "M115"}
       /\ lastOp' \in {"loadEeprom", "backupEeprom"} =>
            /\ sent' = <<>>
            /\ store' = EmptyStore
            /\ ~stateControls']_vars

\* A backup was requested while printing: the session is open, controls are
\* disabled and nothing was sent.
C33_Witness ==
  /\ lastOp = "backupEeprom"
  /\ printing
  /\ execBackup
  /\ ~stateControls
  /\ store = EmptyStore
  /\ sent = <<>>

\* C34: a snapshot is emitted only by a step of the live feed that finds the
\* backup session open and closes it, one snapshot per step, and only
\* backupEeprom opens the session: every snapshot uses up one backup
\* request, so there are never more snapshots than requests and none
\* follows another before backupEeprom is called again.
C34_OneSnapshotPerBackup ==
  [][/\ downloads' # downloads =>
          /\ lastOp' = "fromCurrentData"
          /\ execBackup /\ ~execBackup'
          /\ Len(downloads') = Len(downloads) + 1
          /\ SubSeq(downloads', 1, Len(downloads)) = downloads
     /\ (execBackup' /\ ~execBackup) => lastOp' = "backupEeprom"]_vars

\* A snapshot was emitted, the callback it scheduled has run, and a line
\* delivered after that was extracted without a second snapshot: the M900
\* line is in the store and not in the snapshot.
C34_Witness ==
  /\ lastOp = "fromCurrentData"
  /\ Len(downloads) = 1
  /\ timers = 0
  /\ stateControls
  /\ ~execBackup
  /\ store["Linear"] # <<>>
  /\ \A i \in 1..Len(downloads[1]) :
       downloads[1][i].t = "cmd" => downloads[1][i].fam # "M900"

NonBackupCycleOps == {"loadEeprom", "saveEeprom", "resetEeprom", "handleFileSelect"}

\* C35: no snapshot is emitted while a load, save, reset or restore cycle is
\* the cycle started last; in particular the batch the live feed delivers
\* right after such a cycle was started emits none.
C35_NoSnapshotOutsideBackupCycle ==
  [][(lastOp \in NonBackupCycleOps /\ lastOp' = "fromCurrentData") =>
       downloads' = downloads]_vars

\* The sections fed by the entries whose pattern matches the line.
MatchedSections(line) ==
  LET entries == CommonFields \o BranchFields(FIRMWARE_NAME)
  IN UNION {{entries[i].fields[k].sec : k \in 1..Len(entries[i].fields)} :
              i \in {j \in 1..Len(entries) : RegExExec(rx[entries[j].rx], line) # NoMatch}}

\* C36: extracting a line, live or restored, into a store that holds fields
\* keeps every section's fields as they are and where they are, the new
\* fields coming after them, and leaves a section unchanged when no pattern
\* that feeds it matches the line.
C36_StoreAppendOnly ==
  []((lastOp \in {"fromCurrentData", "handleFileSelect"} /\ store # EmptyStore) =>
      \A line \in FamilyLines \cup {M200OtherLine, OkLine} : \A restoreBackup \in BOOLEAN :
        \E after \in {eepromFieldParse(Self, line, restoreBackup).store} :
          \E matched \in {MatchedSections(line)} :
            \A sec \in Sections :
              /\ Len(after[sec]) >= Len(store[sec])
              /\ SubSeq(after[sec], 1, Len(store[sec])) = store[sec]
              /\ sec \notin matched => after[sec] = store[sec])

\* Under an identified Marlin an M92 line and then an M205 line were
\* extracted: the four steps fields are as the first line left them.
C36_Witness ==
  /\ lastOp = "fromCurrentData"
  /\ isMarlin
  /\ Len(store["Steps"]) = 4
  /\ store["Steps"][1].value = "80.00"
  /\ store["Accel"] # <<>> \/ store["Data1"] # <<>> \/ store["Data2"] # <<>>

\* C37: a batch of the live feed delivered right after a restore leaves
\* every field of the store with an empty origValue.
C37_RestoredStoreStaysUnconfirmed ==
  [][(lastOp = "handleFileSelect" /\ lastOp' = "fromCurrentData") =>
       \A sec \in Sections : \A k \in 1..Len(store'[sec]) :
         store'[sec][k].origValue = ""]_vars

\* C38: a confirmed reset sends M502, M500 and M504 in this order and then
\* starts a load cycle: the store is emptied, controls are disabled and,
\* unless printing, the dump request follows the three commands.  Nothing
\* else is sent, so no per-field command.
C38_ResetSendsDefaultsThenLoads ==
  [][lastOp' = "resetEeprom" =>
       /\ sent' = <<"M502", "M500", "M504">> \o (IF printing THEN <<>> ELSE DumpRequest)
       /\ PerFieldCommands(sent') = <<>>
       /\ store' = EmptyStore
       /\ ~stateControls']_vars

\* A reset was confirmed while not printing.
C38_Witness ==
  /\ lastOp = "resetEeprom"
  /\ ~printing
  /\ sent = <<"M502", "M500", "M504", "M504", "M501">>
  /\ store = EmptyStore
  /\ ~stateControls

====
